---- MODULE Spec2Model ----
(***************************************************************************)
(* A model of memstore's Database class (src/src/database.ts): one table   *)
(* of records, its secondary indices, the observing proxies the store      *)
(* hands out, and the transaction log with its rollback.                   *)
(*                                                                         *)
(* JavaScript object identity is what the index buckets and the change     *)
(* events rest on, so the model keeps it: a handle <<o, k>> is the plain   *)
(* object o (k = 0) or the Proxy obtained by wrapping the handle           *)
(* <<o, k-1>> (k >= 1).  _wrap() caches one Proxy per wrapped value, so    *)
(* the proxies that exist for o are exactly the levels 1.._wrapped[o].     *)
(***************************************************************************)
EXTENDS Integers, Sequences, FiniteSets, TLC

-----------------------------------------------------------------------------
(* Bounds of the model *)

\* largest record identifier the model lets a table assign
MaxUID == 2
\* deepest proxy-of-proxy nesting the model lets _wrap() build
MaxWrap == 2
\* deepest nesting of open transactions
MaxDepth == 2
\* most change events one frame may hold
MaxChanges == 2
\* most calls of one run that change the program's state or throw
MaxCalls == 6
\* the longest list a record may hold
MaxLen == 3
\* most records with a list, a Map and a Set stored at once
MaxNested == 1

\* most members a composite of an encoded value graph may hold
MaxItems == 2
\* most statements a callback given to transaction() executes
MaxSteps == 2
\* the latest time, in timer intervals' halves, the clock of a run reaches
MaxNow == 6

-----------------------------------------------------------------------------
(* Values *)

\* the plain objects a caller may hand to the store
Objs == {"o1", "o2"}
\* the column names of a record
Cols == {"c"}
\* the defined scalar values a column may hold
Values == {1, 2}
\* JavaScript's undefined (the result of reading a missing property, too)
UNDEF == 0
\* marks a property an object does not own
ABSENT == -1
\* the key of the identifier property, Symbol("DataRecord.__id")
UniqueID == "__id"
\* the interval createPeriodicSaveTimer is called with, in units of the clock
Interval == 2

\* what an index may be asked for: a defined value or undefined
Keys == Values \cup {UNDEF}
\* every handle of the model
Handles == Objs \X (0..MaxWrap)
NoHandle == <<"", 0>>

Max(a, b) == IF a >= b THEN a ELSE b

\* Map.set / Map.delete on a function with a finite domain
Put(f, k, v) == [x \in (DOMAIN f) \cup {k} |-> IF x = k THEN v ELSE f[x]]
Del(f, k) == [x \in (DOMAIN f) \ {k} |-> f[x]]
EmptyMap == [x \in {} |-> 0]
Range(f) == {f[x] : x \in DOMAIN f}

-----------------------------------------------------------------------------
(* State *)

VARIABLES
    heap,           \* the own properties of every plain object
    _wrapped,       \* Database._wrapped: how many proxy levels exist per object
    _data,          \* Database._data[tableName]
    nested,         \* the list, the Map and the Set every plain object holds
    _transactions,  \* Database._transactions
    hook,           \* the events the last call handed to onUpdateRecord, each with
                    \* the objects as they were when it was handed over
    last,           \* the last call made and how it ended
    snaps,          \* per open frame: the store as it was at its beginTransaction
    calls,          \* the number of calls so far that changed the state or threw
    codec,          \* one use of Obj2Obj: the value, its wire form, the value decoded
    fs              \* FSDatabase: its dirty marker, the clock and the file it saves to

vars == <<heap, _wrapped, _data, nested, _transactions, hook, last, snaps, calls, codec, fs>>

\* the containers of an object that was given none: hobbies is a list,
\* contactDetails a Map (ABSENT marks a key it does not have) and
\* previousAddresses a Set; of what lies deeper, pager is the value of
\* contact.special.pager, friend the value of friends[0].name, member the
\* value of property x of the object the Set group holds, and addresses
\* the Set the Map directory holds under "addresses"
NoContainers == [hobbies |-> <<>>, contactDetails |-> [k \in Values |-> ABSENT],
                 previousAddresses |-> {},
                 pager |-> UNDEF, friend |-> UNDEF, member |-> UNDEF, addresses |-> {}]

\* the table-less entry of _data
NoTable == [exists |-> FALSE, records |-> EmptyMap, indices |-> EmptyMap, lastUID |-> 0]
\* a table just created: records: new Map(), indices: {}, lastUID undefined
NewTable == [exists |-> TRUE, records |-> EmptyMap, indices |-> EmptyMap, lastUID |-> 0]

\* the program state the operations below transform
State == [heap |-> heap, wrapped |-> _wrapped, data |-> _data, nested |-> nested,
          tx |-> _transactions, hook |-> <<>>, thrown |-> ""]

\* property read through any handle: proxies forward reads of scalars
Read(s, h, key) ==
    LET v == s.heap[h[1]][key] IN IF v = ABSENT THEN UNDEF ELSE v

\* a change event
Event(type, rec, obj, key, old, new) ==
    [type |-> type, record |-> rec, object |-> obj, key |-> key,
     oldValue |-> old, newValue |-> new, colName |-> "",
     args |-> <<>>, deletedValue |-> UNDEF, deletedValues |-> <<>>]

-----------------------------------------------------------------------------
(* onUpdateRecord: log the event, then maintain the index *)

\* a log that files every event in the outermost frame
LogEventOutermost(s, e) ==
    IF Len(s.tx) > 0
    THEN [s EXCEPT !.tx[1] = Append(@, e)]
    ELSE s

\* the event goes to the innermost open frame, if any
LogEvent(s, e) ==
    IF Len(s.tx) > 0
    THEN [s EXCEPT !.tx[Len(s.tx)] = Append(@, e)]
    ELSE s

\* a "set" or "delete" of a field of the record itself moves the record from
\* the bucket of the old value to the bucket of the new value (of undefined,
\* for a delete); the member moved is event.record, the handle written through
UpdateIndex(s, e) ==
    IF /\ e.type \in {"set", "delete"}
       /\ e.record = e.object
       /\ s.data.exists
       /\ e.key \in DOMAIN s.data.indices
    THEN LET new  == IF e.type = "set" THEN e.newValue ELSE UNDEF
             idx  == s.data.indices[e.key]
             idx1 == [idx EXCEPT ![e.oldValue] = @ \ {e.record}]
             idx2 == [idx1 EXCEPT ![new] = @ \cup {e.record}]
         IN  [s EXCEPT !.data.indices[e.key] = idx2]
    ELSE s

\* the overridable body of onUpdateRecord is called with the event
Dispatch(s, e) ==
    [s EXCEPT !.hook = Append(@, [event |-> e, heap |-> s.heap, nested |-> s.nested])]

OnUpdateRecord(s, e) == Dispatch(UpdateIndex(LogEvent(s, e), e), e)

-----------------------------------------------------------------------------
(* _wrap: the proxies and their traps *)

\* _wrapRecord(h): the cached proxy of h, created if need be
WrapRecord(h) == <<h[1], h[2] + 1>>
Wrapping(s, h) == [s EXCEPT !.wrapped[h[1]] = Max(@, h[2] + 1)]

\* The traps of the proxies <<o,1>> .. <<o,k>> fire innermost first: every
\* level reads the old value before it forwards the write to its target, the
\* plain object is written, and then each level reports its own event, whose
\* record and object are both that level's proxy.
RECURSIVE Report(_, _, _, _, _)
Report(s, o, j, k, e) ==
    IF j > k THEN s
    ELSE Report(OnUpdateRecord(s, [e EXCEPT !.record = <<o, j>>, !.object = <<o, j>>]),
                o, j + 1, k, e)

\* h[key] = value (a plain write when h is the plain object)
ProxySet(s, h, key, value) ==
    LET old == Read(s, h, key)
        s1  == [s EXCEPT !.heap[h[1]][key] = value]
    IN  Report(s1, h[1], 1, h[2], [Event("set", h, h, key, old, value) EXCEPT !.colName = key])

\* delete h[key]
ProxyDelete(s, h, key) ==
    LET old == Read(s, h, key)
        s1  == [s EXCEPT !.heap[h[1]][key] = ABSENT]
    IN  Report(s1, h[1], 1, h[2], [Event("delete", h, h, key, old, UNDEF) EXCEPT !.colName = key])

-----------------------------------------------------------------------------
(* Records *)

\* the loop of addRecord/setRecord over the table's indices: a record with a
\* defined value joins the bucket of that value
IndexRecord(s, wr) ==
    [s EXCEPT !.data.indices =
        [col \in DOMAIN @ |->
            IF Read(s, wr, col) # UNDEF
            THEN [@[col] EXCEPT ![Read(s, wr, col)] = @ \cup {wr}]
            ELSE @[col]]]

\* an addRecord that assigns the smallest identifier not in use
AddRecordRecycling(s, h, wrapped) ==
    IF ~s.data.exists THEN [s EXCEPT !.thrown = "TableNotFound"]
    ELSE LET uid == CHOOSE n \in 1..(s.data.lastUID + 1) :
                        /\ n \notin DOMAIN s.data.records
                        /\ \A m \in 1..(n - 1) : m \in DOMAIN s.data.records
             s1  == [s EXCEPT !.data.lastUID = Max(@, uid)]
             s2  == ProxySet(s1, h, UniqueID, uid)
             s3  == [s2 EXCEPT !.data.records = Put(@, uid, h)]
             wr  == IF wrapped THEN WrapRecord(h) ELSE h
             s4  == IF wrapped THEN Wrapping(s3, h) ELSE s3
             s5  == IndexRecord(s4, wr)
         IN  OnUpdateRecord(s5, Event("added", wr, wr, "", UNDEF, UNDEF))

AddRecord(s, h, wrapped) ==
    IF ~s.data.exists THEN [s EXCEPT !.thrown = "TableNotFound"]
    ELSE LET uid == s.data.lastUID + 1
             s1  == [s EXCEPT !.data.lastUID = uid]
             s2  == ProxySet(s1, h, UniqueID, uid)
             s3  == [s2 EXCEPT !.data.records = Put(@, uid, h)]
             wr  == IF wrapped THEN WrapRecord(h) ELSE h
             s4  == IF wrapped THEN Wrapping(s3, h) ELSE s3
             s5  == IndexRecord(s4, wr)
         IN  OnUpdateRecord(s5, Event("added", wr, wr, "", UNDEF, UNDEF))

\* a setRecord that creates the table it does not find
SetRecordCreating(s, h, uid, wrapped) ==
    LET s0  == IF s.data.exists THEN s ELSE [s EXCEPT !.data = NewTable]
        s1  == IF s0.data.lastUID = 0 \/ s0.data.lastUID < uid
               THEN [s0 EXCEPT !.data.lastUID = uid] ELSE s0
        s2  == ProxySet(s1, h, UniqueID, uid)
        s3  == [s2 EXCEPT !.data.records = Put(@, uid, h)]
        wr  == IF wrapped THEN WrapRecord(h) ELSE h
        s4  == IF wrapped THEN Wrapping(s3, h) ELSE s3
        s5  == IndexRecord(s4, wr)
    IN  OnUpdateRecord(s5, Event("added", wr, wr, "", UNDEF, UNDEF))

SetRecord(s, h, uid, wrapped) ==
    IF ~s.data.exists THEN [s EXCEPT !.thrown = "TableNotFound"]
    ELSE LET s1  == IF s.data.lastUID = 0 \/ s.data.lastUID < uid
                    THEN [s EXCEPT !.data.lastUID = uid] ELSE s
             s2  == ProxySet(s1, h, UniqueID, uid)
             s3  == [s2 EXCEPT !.data.records = Put(@, uid, h)]
             wr  == IF wrapped THEN WrapRecord(h) ELSE h
             s4  == IF wrapped THEN Wrapping(s3, h) ELSE s3
             s5  == IndexRecord(s4, wr)
         IN  OnUpdateRecord(s5, Event("added", wr, wr, "", UNDEF, UNDEF))

\* the loop of removeRecord over the indices: the handle passed in, and only
\* it, leaves the bucket of the record's current value
UnindexRecord(s, h) ==
    [s EXCEPT !.data.indices =
        [col \in DOMAIN @ |->
            IF Read(s, h, col) # UNDEF
            THEN [@[col] EXCEPT ![Read(s, h, col)] = @ \ {h}]
            ELSE @[col]]]

RemoveRecord(s, h) ==
    IF ~s.data.exists THEN s
    ELSE IF Read(s, h, UniqueID) = UNDEF THEN s
    ELSE IF Read(s, h, UniqueID) \notin DOMAIN s.data.records THEN s
    ELSE LET s1 == [s EXCEPT !.data.records = Del(@, Read(s, h, UniqueID))]
             s2 == UnindexRecord(s1, h)
         IN  OnUpdateRecord(s2, Event("removed", h, h, "", UNDEF, UNDEF))

\* removeRecordsByColumn removes, one by one, what getRecordsByColumn found
RECURSIVE RemoveRecords(_, _)
RemoveRecords(s, entries) ==
    IF entries = {} THEN s
    ELSE LET entry == CHOOSE entry \in entries : TRUE
         IN  RemoveRecords(RemoveRecord(s, entry), entries \ {entry})

-----------------------------------------------------------------------------
(* Lookups *)

\* _wrap records the proxies it makes of what a lookup returns
RECURSIVE WrapAll(_, _)
WrapAll(s, hs) ==
    IF hs = {} THEN s
    ELSE LET h == CHOOSE h \in hs : TRUE
         IN  WrapAll([s EXCEPT !.wrapped[h[1]] = Max(@, h[2])], hs \ {h})

\* getRecord(id, wrapped = true): the proxy of the stored entry, or nothing
GetRecord(s, id) ==
    IF s.data.exists /\ id \in DOMAIN s.data.records
    THEN {WrapRecord(s.data.records[id])} ELSE {}

\* getAllRecords: the stored entries themselves
GetAllRecords(s) == Range(s.data.records)

\* the state a call of getAllRecords leaves: it reads the records of
\* _data[tableName] with no guard, a TypeError when the table does not exist
GetAllRecordsCall(s) ==
    IF s.data.exists THEN s ELSE [s EXCEPT !.thrown = "TypeError"]

\* the two paths of getRecordsByColumn, before the result is wrapped
BucketLookup(s, col, value) == s.data.indices[col][value]
LinearScan(s, col, value) == {r \in Range(s.data.records) : Read(s, r, col) = value}

\* getRecordsByColumn(col, value, wrapped = true)
GetRecordsByColumn(s, col, value) ==
    IF ~s.data.exists THEN {}
    ELSE LET found == IF col \in DOMAIN s.data.indices
                      THEN BucketLookup(s, col, value)
                      ELSE LinearScan(s, col, value)
         IN  {WrapRecord(r) : r \in found}

RemoveRecordsByColumn(s, col, value) ==
    RemoveRecords(WrapAll(s, GetRecordsByColumn(s, col, value)),
                  GetRecordsByColumn(s, col, value))

-----------------------------------------------------------------------------
(* Tables and indices *)

\* an addIndex that builds the index anew when the column has one already
AddIndexRebuilding(s, col) ==
    IF ~s.data.exists THEN s
    ELSE LET built == [v \in Keys |->
                         IF v = UNDEF THEN {}
                         ELSE {r \in Range(s.data.records) : Read(s, r, col) = v}]
         IN  [s EXCEPT !.data.indices = Put(@, col, built)]

\* addIndex scans records.values() and files each stored entry under its value
AddIndex(s, col) ==
    IF ~s.data.exists THEN s
    ELSE IF col \in DOMAIN s.data.indices THEN s
    ELSE LET built == [v \in Keys |->
                         IF v = UNDEF THEN {}
                         ELSE {r \in Range(s.data.records) : Read(s, r, col) = v}]
         IN  [s EXCEPT !.data.indices = Put(@, col, built)]

IndexExists(s, col) == s.data.exists /\ col \in DOMAIN s.data.indices

RemoveIndex(s, col) ==
    IF ~s.data.exists THEN s
    ELSE IF col \notin DOMAIN s.data.indices THEN s
    ELSE [s EXCEPT !.data.indices = Del(@, col)]

RECURSIVE AddIndices(_, _)
AddIndices(s, keys) ==
    IF keys = {} THEN s
    ELSE LET k == CHOOSE k \in keys : TRUE
         IN  AddIndices(AddIndex(s, k), keys \ {k})

\* a createTable that starts every time from an empty table
CreateTableClearing(s, indexKeys) ==
    AddIndices([s EXCEPT !.data = NewTable], indexKeys)

CreateTable(s, indexKeys) ==
    AddIndices(IF s.data.exists THEN s ELSE [s EXCEPT !.data = NewTable], indexKeys)

DeleteTable(s) ==
    IF ~s.data.exists THEN s ELSE [s EXCEPT !.data = NoTable]

-----------------------------------------------------------------------------
(* The list, the Map and the Set of a record, used through the proxies that *)
(* reading them from the handle addRecord returned yields                   *)

\* the proxy of a container of a record: _wrap caches one per container
Container(name) == <<name, 1>>

\* the event a tracked method reports: record is the record's proxy, object
\* the container's proxy, key the method's name
MethodEvent(s, o, name, method, args, old, deletedValue, deletedValues) ==
    OnUpdateRecord(s, [Event("method." \o method, <<o, 1>>, Container(name), method, old, UNDEF)
                         EXCEPT !.colName = name, !.args = args, !.deletedValue = deletedValue,
                                !.deletedValues = deletedValues])

\* Array.prototype.splice(start, deleteCount, ...items) for start >= 0
Splice(list, start, deleteCount, items) ==
    LET from  == IF start > Len(list) THEN Len(list) ELSE start
        count == IF deleteCount > Len(list) - from THEN Len(list) - from ELSE deleteCount
    IN  [list    |-> SubSeq(list, 1, from) \o items \o SubSeq(list, from + count + 1, Len(list)),
         deleted |-> SubSeq(list, from + 1, from + count)]

\* the array methods apply to the target first and report afterwards
ListPush(s, o, args) ==
    MethodEvent([s EXCEPT !.nested[o].hobbies = @ \o args],
                o, "hobbies", "push", args, UNDEF, UNDEF, <<>>)

ListUnshift(s, o, args) ==
    MethodEvent([s EXCEPT !.nested[o].hobbies = args \o @],
                o, "hobbies", "unshift", args, UNDEF, UNDEF, <<>>)

ListPop(s, o) ==
    LET list         == s.nested[o].hobbies
        deletedItems == IF list = <<>> THEN UNDEF ELSE list[Len(list)]
        rest         == IF list = <<>> THEN <<>> ELSE SubSeq(list, 1, Len(list) - 1)
    IN  MethodEvent([s EXCEPT !.nested[o].hobbies = rest],
                    o, "hobbies", "pop", <<>>, UNDEF, deletedItems, <<>>)

ListShift(s, o) ==
    LET list         == s.nested[o].hobbies
        deletedItems == IF list = <<>> THEN UNDEF ELSE list[1]
        rest         == IF list = <<>> THEN <<>> ELSE Tail(list)
    IN  MethodEvent([s EXCEPT !.nested[o].hobbies = rest],
                    o, "hobbies", "shift", <<>>, UNDEF, deletedItems, <<>>)

ListSplice(s, o, start, deleteCount, items) ==
    LET done == Splice(s.nested[o].hobbies, start, deleteCount, items)
    IN  MethodEvent([s EXCEPT !.nested[o].hobbies = done.list],
                    o, "hobbies", "splice", <<start, deleteCount>> \o items,
                    UNDEF, UNDEF, done.deleted)

\* Map.prototype.get: undefined for a key the Map does not have
MapGet(s, o, k) ==
    LET v == s.nested[o].contactDetails[k] IN IF v = ABSENT THEN UNDEF ELSE v
MapHas(s, o, k) == s.nested[o].contactDetails[k] # ABSENT

\* the Map and Set methods report first, oldValue read from the target, and
\* apply to the target afterwards
MapSet(s, o, k, v) ==
    LET s1 == MethodEvent(s, o, "contactDetails", "set", <<k, v>>, MapGet(s, o, k), UNDEF, <<>>)
    IN  [s1 EXCEPT !.nested[o].contactDetails[k] = v]

MapDelete(s, o, k) ==
    LET s1 == MethodEvent(s, o, "contactDetails", "delete", <<k>>, MapGet(s, o, k), UNDEF, <<>>)
    IN  [s1 EXCEPT !.nested[o].contactDetails[k] = ABSENT]

MapClear(s, o) ==
    LET s1 == MethodEvent(s, o, "contactDetails", "clear", <<>>, UNDEF, UNDEF, <<>>)
    IN  [s1 EXCEPT !.nested[o].contactDetails = [k \in Values |-> ABSENT]]

SetAdd(s, o, v) ==
    LET s1 == MethodEvent(s, o, "previousAddresses", "add", <<v>>, UNDEF, UNDEF, <<>>)
    IN  [s1 EXCEPT !.nested[o].previousAddresses = @ \cup {v}]

SetDelete(s, o, v) ==
    LET s1 == MethodEvent(s, o, "previousAddresses", "delete", <<v>>, UNDEF, UNDEF, <<>>)
    IN  [s1 EXCEPT !.nested[o].previousAddresses = @ \ {v}]

SetClear(s, o) ==
    LET s1 == MethodEvent(s, o, "previousAddresses", "clear", <<>>, UNDEF, UNDEF, <<>>)
    IN  [s1 EXCEPT !.nested[o].previousAddresses = {}]

-----------------------------------------------------------------------------
(* Values nested deeper: every proxy keeps the record and the column that   *)
(* _wrap was given when it made the proxy, and reports them in its events   *)

Tag(record, colName) == [record |-> record, colName |-> colName]

\* _wrapRecord(record) = _wrap(tableName, record, undefined, record)
RecordTag(o) == Tag(<<o, 0>>, "")

\* colName ?? property
CurColName(tag, property) == IF tag.colName = "" THEN property ELSE tag.colName

\* reading a property of an object or of a list through its proxy wraps the
\* value read for the same record
ViaProperty(tag, property) == Tag(tag.record, CurColName(tag, property))

\* get, keys, values, entries and forEach of a Map or Set wrap what they
\* yield with the target, the Map or Set itself, in the place of the record
ViaMember(tag, target, property) == Tag(target, CurColName(tag, property))

\* the event a proxy made with this tag reports
TaggedEvent(s, tag, object, type, key, old, new, args) ==
    OnUpdateRecord(s, [Event(type, WrapRecord(tag.record), object, key, old, new)
                         EXCEPT !.colName = CurColName(tag, key), !.args = args])

\* record.contact.special.pager = v
SetPager(s, o, v) ==
    LET tag == ViaProperty(ViaProperty(RecordTag(o), "contact"), "special")
    IN  TaggedEvent([s EXCEPT !.nested[o].pager = v], tag, <<"special", 1>>,
                    "set", "pager", s.nested[o].pager, v, <<>>)

\* record.friends[0].name = v
SetFriend(s, o, v) ==
    LET tag == ViaProperty(ViaProperty(RecordTag(o), "friends"), "0")
    IN  TaggedEvent([s EXCEPT !.nested[o].friend = v], tag, <<"friends[0]", 1>>,
                    "set", "name", s.nested[o].friend, v, <<>>)

\* the forms in which a Map hands out its values and a Set its elements
\* while it is iterated ("iterator" is for..of)
MapForms == {"values", "entries", "forEach", "iterator"}
SetForms == {"keys", "values", "entries", "forEach", "iterator"}

\* a form of iteration that wraps what it yields for the record, as reading
\* a property does
YieldForRecord(tag, target, kind, form) == Tag(tag.record, CurColName(tag, form))

\* what a composite that an iteration of a Map or Set yields is wrapped
\* with: keys, values and forEach wrap it themselves, and so does entries of
\* a Map; entries of a Set and the iterator of a Map wrap the pair they
\* yield, and reading the pair's element wraps the composite
Yield(tag, target, kind, form) ==
    IF (form = "entries" /\ kind = "set") \/ (form = "iterator" /\ kind = "map")
    THEN ViaProperty(ViaMember(tag, target, form), "1")
    ELSE ViaMember(tag, target, form)

\* the Set addresses of record o reached in the given way: by
\* record.directory.get("addresses"), or as an iteration of directory yields it
Addresses(o, how) ==
    IF how = "get"
    THEN ViaMember(ViaProperty(RecordTag(o), "directory"), <<"directory", 0>>, "get")
    ELSE Yield(ViaProperty(RecordTag(o), "directory"), <<"directory", 0>>, "map", how)

\* addresses.add(v) on the Set reached in the given way
AddAddress(s, o, how, v) ==
    LET s1 == TaggedEvent(s, Addresses(o, how), <<"addresses", 1>>,
                          "method.add", "add", UNDEF, UNDEF, <<v>>)
    IN  [s1 EXCEPT !.nested[o].addresses = @ \cup {v}]

\* member.x = v on the object that an iteration of the Set record.group
\* yields
SetMember(s, o, how, v) ==
    LET tag == Yield(ViaProperty(RecordTag(o), "group"), <<"group", 0>>, "set", how)
    IN  TaggedEvent([s EXCEPT !.nested[o].member = v], tag, <<"member", 1>>,
                    "set", "x", s.nested[o].member, v, <<>>)

-----------------------------------------------------------------------------
(* Transactions *)

BeginTransaction(s) == [s EXCEPT !.tx = Append(@, <<>>)]

CommitTransaction(s) ==
    IF Len(s.tx) = 0 THEN [s EXCEPT !.thrown = "NoActiveTransaction"]
    ELSE [s EXCEPT !.tx = SubSeq(@, 1, Len(@) - 1)]

\* the inverse rollbackTransaction applies for one logged change; every
\* inverse of a method is a method called on change.object, the proxy
UndoChange(s, change) ==
    LET o    == change.record[1]
        args == change.args
    IN  CASE change.type = "added"   -> RemoveRecord(s, change.record)
          [] change.type = "removed" -> AddRecord(s, change.record, FALSE)
          [] change.type = "set"     -> ProxySet(s, change.object, change.key, change.oldValue)
          [] change.type = "delete"  -> ProxySet(s, change.object, change.key, change.oldValue)
          [] change.type = "method.add"    -> SetDelete(s, o, args[1])
          [] change.type = "method.delete" ->
                IF change.object = Container("contactDetails")
                THEN MapSet(s, o, args[1], change.oldValue)
                ELSE SetAdd(s, o, args[1])
          [] change.type = "method.set"    ->
                IF MapHas(s, o, args[1]) THEN MapSet(s, o, args[1], args[2])
                ELSE MapDelete(s, o, args[1])
          [] change.type = "method.clear"  -> s
          [] change.type = "method.pop"    -> ListPush(s, o, <<change.deletedValue>>)
          [] change.type = "method.shift"  -> ListUnshift(s, o, <<change.deletedValue>>)
          [] change.type = "method.push"   ->
                IF Len(s.nested[o].hobbies) > 0 THEN ListPop(s, o) ELSE s
          [] change.type = "method.unshift" ->
                IF Len(s.nested[o].hobbies) > 0 THEN ListShift(s, o) ELSE s
          [] change.type = "method.splice" ->
                LET s1 == ListSplice(s, o, args[1], Max(0, Len(args) - 2), <<>>)
                IN  ListSplice(s1, o, args[1], 0, change.deletedValues)
          [] OTHER                   -> s

\* for (const change of transaction.changes.reverse()): last change first,
\* until the frame is exhausted or an inverse throws
RECURSIVE UndoChanges(_, _, _)
UndoChanges(s, changes, i) ==
    IF i = 0 \/ s.thrown # "" THEN s
    ELSE UndoChanges(UndoChange(s, changes[i]), changes, i - 1)

\* a rollback without the length check: with no frame open pop() yields
\* undefined and reading its changes throws a TypeError
RollbackUnchecked(s) ==
    IF Len(s.tx) = 0 THEN [s EXCEPT !.thrown = "TypeError"]
    ELSE LET transaction == s.tx[Len(s.tx)]
             popped      == [s EXCEPT !.tx = SubSeq(@, 1, Len(@) - 1)]
         IN  UndoChanges(popped, transaction, Len(transaction))

RollbackTransaction(s) ==
    IF Len(s.tx) = 0 THEN [s EXCEPT !.thrown = "NoActiveTransaction"]
    ELSE LET transaction == s.tx[Len(s.tx)]
             popped      == [s EXCEPT !.tx = SubSeq(@, 1, Len(@) - 1)]
         IN  UndoChanges(popped, transaction, Len(transaction))

\* A callback given to transaction() is a list of statements: an assignment
\* record.c = v through the handle addRecord returned for object o, an
\* addRecord of a literal { c: v }, or a throw.
Statement(op, o, v) == [op |-> op, o |-> o, v |-> v]

\* cb(): the statements in turn, until the last or until one throws
RECURSIVE Run(_, _, _)
Run(cb, i, s) ==
    IF i > Len(cb) \/ s.thrown # "" THEN s
    ELSE LET o == cb[i].o
             v == cb[i].v
             done == CASE cb[i].op = "set" -> ProxySet(s, <<o, 1>>, "c", v)
                       [] cb[i].op = "add" ->
                            AddRecord([s EXCEPT !.heap[o] =
                                          [k \in Cols \cup {UniqueID} |->
                                              IF k = UniqueID THEN ABSENT ELSE v]],
                                      <<o, 0>>, TRUE)
                       [] OTHER -> [s EXCEPT !.thrown = "CallbackError"]
         IN  Run(cb, i + 1, done)

\* the try block of the function transaction(cb) returns: cb(), then the
\* commit
Try(s, cb) ==
    LET ran == Run(cb, 1, s)
    IN  IF ran.thrown = "" THEN CommitTransaction(ran) ELSE ran

\* transaction(cb)(): what the try block throws is caught, the frame is
\* rolled back and the error is thrown again, unless the rollback throws
Transaction(s, cb) ==
    LET tried == Try(BeginTransaction(s), cb)
    IN  IF tried.thrown = "" THEN tried
        ELSE LET rolled == RollbackTransaction([tried EXCEPT !.thrown = ""])
             IN  IF rolled.thrown # "" THEN rolled
                 ELSE [rolled EXCEPT !.thrown = tried.thrown]

-----------------------------------------------------------------------------
(* The codec Obj2Obj (src/obj2obj.ts): values and their wire form            *)

\* A JavaScript value is a pair of its kind and a number: for a scalar the
\* number is the scalar itself (strings are numbered), for a token (a
\* Symbol) it names the token, and for a composite (kind "node") it names a
\* node of the value graph, which is the composite's identity.
Val(t, v) == [t |-> t, v |-> v]
Num(n) == Val("number", n)
Str(n) == Val("string", n)
Big(n) == Val("bigint", n)
Sym(k) == Val("symbol", k)
Node(n) == Val("node", n)
Undefined == Val("undefined", 0)
Null == Val("null", 0)

\* A node of a value graph: a list or a Set holds its elements as the val of
\* its entries, in order; a Map or an object holds entries of key and val; a
\* date holds its time in milliseconds.
Entry(key, val) == [key |-> key, val |-> val]
Element(val) == Entry(Undefined, val)
Composite(kind, items) == [kind |-> kind, time |-> 0, items |-> items]
DateOf(time) == [kind |-> "date", time |-> time, items |-> <<>>]

\* A node of the wire form (EncodedObj): type, ref and the children are as
\* in the source; val is split by what it holds: vt and val for a scalar
\* (vt is its typeof), str for the text of a bigint or a date, name for the
\* name of a token (named tells whether val is a string).
Leaf(type) ==
    [type |-> type, vt |-> "undefined", val |-> 0, str |-> <<>>, name |-> "",
     named |-> FALSE, ref |-> -1, items |-> <<>>]
NoWire == Leaf("none")

\* the decimal digits of a natural number, most significant first
RECURSIVE Digits(_)
Digits(n) == IF n < 10 THEN <<n>> ELSE Append(Digits(n \div 10), n % 10)

\* BigInt.prototype.toString: a sign, 1 when negative, and the digits
BigIntToString(n) == IF n < 0 THEN <<1>> \o Digits(-n) ELSE <<0>> \o Digits(n)

RECURSIVE DigitsValue(_)
DigitsValue(ds) ==
    IF Len(ds) = 0 THEN 0
    ELSE 10 * DigitsValue(SubSeq(ds, 1, Len(ds) - 1)) + ds[Len(ds)]

\* BigInt(string)
BigInt(str) ==
    IF str[1] = 1 THEN -DigitsValue(Tail(str)) ELSE DigitsValue(Tail(str))

\* Date.prototype.toISOString for a time within the first hour of 1970:
\* year, month, day, hours, minutes, seconds, milliseconds
ToISOString(time) ==
    <<1970, 1, 1, 0, (time \div 60000) % 60, (time \div 1000) % 60, time % 1000>>

\* new Date(isoString), for the same range
DateFromISO(str) == (str[5] * 60 + str[6]) * 1000 + str[7]

\* symbols[name] = token on a table kept in insertion order
Assign(symbols, name, token) ==
    IF \E i \in 1..Len(symbols) : symbols[i].name = name
    THEN [i \in 1..Len(symbols) |->
             IF symbols[i].name = name THEN [name |-> name, token |-> token]
             ELSE symbols[i]]
    ELSE Append(symbols, [name |-> name, token |-> token])

\* symbols[name], 0 when the table has no such name
Lookup(symbols, name) ==
    IF \E i \in 1..Len(symbols) : symbols[i].name = name
    THEN symbols[CHOOSE i \in 1..Len(symbols) : symbols[i].name = name].token
    ELSE 0

\* a count of the composites seen that starts at one
SizeFromOne(refs) == Cardinality({n \in DOMAIN refs : refs[n] # -1}) + 1

\* refs.size
Size(refs) == Cardinality({n \in DOMAIN refs : refs[n] # -1})

\* what one Encode call threads through its recursion: the value graph, the
\* blocklist, refs (node to reference id, -1 when not yet seen) and symbols
Encoder(graph, symbols, blocklist) ==
    [graph |-> graph, blocklist |-> blocklist, symbols |-> symbols,
     refs |-> [n \in DOMAIN graph |-> -1]]

\* the token branch of Encode: the first name of the table that holds the
\* token, or else the placeholder "__unk" and the number of names seen
EncodeSymbol(token, e) ==
    IF \E i \in 1..Len(e.symbols) : e.symbols[i].token = token
    THEN LET i == CHOOSE i \in 1..Len(e.symbols) :
                      /\ e.symbols[i].token = token
                      /\ \A j \in 1..(i - 1) : e.symbols[j].token # token
         IN  [wire |-> [Leaf("symbol") EXCEPT !.name = e.symbols[i].name, !.named = TRUE],
              e |-> e]
    ELSE LET name == "__unk" \o ToString(Len(e.symbols))
         IN  [wire |-> [Leaf("symbol") EXCEPT !.name = name, !.named = TRUE],
              e |-> [e EXCEPT !.symbols = Assign(@, name, token)]]

RECURSIVE Encode(_, _)
RECURSIVE EncodeItems(_, _, _, _, _)

\* Encode(obj, symbols, refs, blocklist): the wire node of value obj and the
\* encoder after it
Encode(obj, e) ==
    IF obj.t \in {"node", "null"}
    THEN IF obj \in e.blocklist THEN [wire |-> Leaf("undefined"), e |-> e]
         ELSE IF obj.t = "node" /\ e.refs[obj.v] # -1
         THEN [wire |-> [Leaf("ref") EXCEPT !.val = e.refs[obj.v]], e |-> e]
         ELSE IF obj.t = "null" THEN [wire |-> Leaf("null"), e |-> e]
         ELSE LET ref  == Size(e.refs)
                  e1   == [e EXCEPT !.refs[obj.v] = ref]
                  node == e.graph[obj.v]
              IN  IF node.kind = "date"
                  THEN [wire |-> [Leaf("date") EXCEPT !.str = ToISOString(node.time),
                                                      !.ref = ref],
                        e |-> e1]
                  ELSE LET r == EncodeItems(node.kind, node.items, 1, <<>>, e1)
                       IN  [wire |-> [Leaf(node.kind) EXCEPT !.items = r.out, !.ref = ref],
                            e |-> r.e]
    ELSE IF obj.t = "symbol" THEN EncodeSymbol(obj.v, e)
    ELSE IF obj.t = "function" THEN [wire |-> Leaf("undefined"), e |-> e]
    ELSE IF obj.t = "bigint"
    THEN [wire |-> [Leaf("bigint") EXCEPT !.str = BigIntToString(obj.v)], e |-> e]
    ELSE [wire |-> [Leaf(obj.t) EXCEPT !.vt = obj.t, !.val = obj.v], e |-> e]

\* the loops of Encode over a composite's members, from the i-th on: one
\* Encode per element of a list or Set, key then val per entry of a Map or
\* object
EncodeItems(kind, items, i, out, e) ==
    IF i > Len(items) THEN [out |-> out, e |-> e]
    ELSE IF kind \in {"array", "set"}
    THEN LET v == Encode(items[i].val, e)
         IN  EncodeItems(kind, items, i + 1, Append(out, Entry(NoWire, v.wire)), v.e)
    ELSE LET k == Encode(items[i].key, e)
             v == Encode(items[i].val, k.e)
         IN  EncodeItems(kind, items, i + 1, Append(out, Entry(k.wire, v.wire)), v.e)

\* what one Decode call threads through its recursion: the nodes made so
\* far (a node's number is its place in graph), refs (pairs of reference id
\* and node), symbols, the number of tokens made by Symbol(), and the error
\* thrown
Decoder(symbols) ==
    [graph |-> <<>>, refs |-> {}, symbols |-> symbols, made |-> 0, thrown |-> ""]

\* the tokens Symbol() makes are numbered -1, -2, ...
NewSymbol(d) == -(d.made + 1)

\* a refs.set that forgets the node
RegisterNothing(refs, ref, n) == refs

\* refs.set(ref, node)
Register(refs, ref, n) == {p \in refs : p[1] # ref} \cup {<<ref, n>>}

\* refs.get(ref): undefined when the id was never registered
Resolve(refs, ref) ==
    IF \E p \in refs : p[1] = ref
    THEN Node((CHOOSE p \in refs : p[1] = ref)[2])
    ELSE Undefined

\* out.push(val), out.add(val), out.set(key, val) and out[key] = val
Insert(kind, items, key, val) ==
    CASE kind = "array" -> Append(items, Element(val))
      [] kind = "set"   -> IF \E i \in 1..Len(items) : items[i].val = val THEN items
                           ELSE Append(items, Element(val))
      [] OTHER          -> IF \E i \in 1..Len(items) : items[i].key = key
                           THEN [i \in 1..Len(items) |->
                                    IF items[i].key = key THEN Entry(key, val) ELSE items[i]]
                           ELSE Append(items, Entry(key, val))

\* the text of a bigint is a sign and decimal digits
IsBigIntText(str) == Len(str) >= 2 /\ \A i \in 2..Len(str) : str[i] \in 0..9

RECURSIVE Decode(_, _)
RECURSIVE DecodeItems(_, _, _, _, _)

\* Decode(obj, symbols, refs): the value of wire node obj and the decoder
\* after it
Decode(obj, d) ==
    CASE obj.type \in {"array", "map", "object", "set"} ->
            LET n  == Len(d.graph) + 1
                d1 == [d EXCEPT !.graph = Append(@, Composite(obj.type, <<>>)),
                                !.refs = Register(@, obj.ref, n)]
            IN  [value |-> Node(n), d |-> DecodeItems(obj.type, n, obj.items, 1, d1)]
      [] obj.type = "date" ->
            LET n == Len(d.graph) + 1
            IN  [value |-> Node(n),
                 d |-> [d EXCEPT !.graph = Append(@, DateOf(DateFromISO(obj.str))),
                                 !.refs = Register(@, obj.ref, n)]]
      [] obj.type = "ref" ->
            [value |-> Resolve(d.refs, obj.val), d |-> d]
      [] obj.type = "symbol" ->
            IF obj.named
            THEN IF Lookup(d.symbols, obj.name) = 0
                 THEN [value |-> Sym(NewSymbol(d)),
                       d |-> [d EXCEPT !.symbols = Assign(@, obj.name, NewSymbol(d)),
                                       !.made = @ + 1]]
                 ELSE [value |-> Sym(Lookup(d.symbols, obj.name)), d |-> d]
            ELSE [value |-> Sym(NewSymbol(d)), d |-> [d EXCEPT !.made = @ + 1]]
      [] obj.type = "bigint" ->
            IF IsBigIntText(obj.str) THEN [value |-> Big(BigInt(obj.str)), d |-> d]
            ELSE [value |-> Undefined, d |-> [d EXCEPT !.thrown = "SyntaxError"]]
      [] obj.type = "null" ->
            [value |-> Null, d |-> d]
      [] OTHER ->
            [value |-> Val(obj.vt, obj.val), d |-> d]

\* the loops of Decode over the children of a wire node, from the i-th on,
\* filling node n; a Map or object entry decodes its key, then its val
DecodeItems(kind, n, items, i, d) ==
    IF i > Len(items) \/ d.thrown # "" THEN d
    ELSE IF kind \in {"array", "set"}
    THEN LET v == Decode(items[i].val, d)
         IN  DecodeItems(kind, n, items, i + 1,
                 IF v.d.thrown # "" THEN v.d
                 ELSE [v.d EXCEPT !.graph[n].items = Insert(kind, @, Undefined, v.value)])
    ELSE LET k == Decode(items[i].key, d)
             v == IF k.d.thrown # "" THEN k ELSE Decode(items[i].val, k.d)
         IN  DecodeItems(kind, n, items, i + 1,
                 IF v.d.thrown # "" THEN v.d
                 ELSE [v.d EXCEPT !.graph[n].items = Insert(kind, @, k.value, v.value)])

\* what the encoded value graphs are built from: scalars, the times of
\* dates, tokens, and the symbol tables a caller may pass
Scalars == {Num(1), Str(1), Big(12), Null}
Times == {0, 61001}
Tokens == {1, 2}
SymbolTables ==
    {<<>>, <<[name |-> "__id", token |-> 1]>>, <<[name |-> "__unk1", token |-> 1]>>}

\* the codec at rest
Idle ==
    [phase |-> "idle", graph |-> <<>>, root |-> Undefined, symbols |-> <<>>,
     blocklist |-> {}, wire |-> NoWire, e |-> Encoder(<<>>, <<>>, {}),
     value |-> Undefined, d |-> Decoder(<<>>)]

\* a caller about to encode value root of a graph
Input(graph, root, symbols, blocklist) ==
    [Idle EXCEPT !.phase = "input", !.graph = graph, !.root = root,
                 !.symbols = symbols, !.blocklist = blocklist]

\* a caller about to decode a wire node that no Encode made
WireInput(wire) == [Idle EXCEPT !.phase = "wire", !.wire = wire]

\* the sequences of at most max members drawn from a set
SeqsUpTo(S, max) == UNION {[1..k -> S] : k \in 0..max}

\* the members a composite of a kind may hold: a Set holds a value once, a
\* Map or an object holds a key once
ItemsOf(kind, keys, vals, max) ==
    IF kind \in {"array", "set"}
    THEN {items \in SeqsUpTo({Element(v) : v \in vals}, max) :
             kind = "set" => \A i, j \in 1..Len(items) : i # j => items[i] # items[j]}
    ELSE {items \in SeqsUpTo({Entry(k, v) : k \in keys, v \in vals}, max) :
             \A i, j \in 1..Len(items) : i # j => items[i].key # items[j].key}

\* the keys of an object are strings, those of a Map any value
KeysOf(kind, mapKeys) == IF kind = "object" THEN {Str(1), Str(2)} ELSE mapKeys

NodesOver(mapKeys, vals, max) ==
    {DateOf(time) : time \in Times}
        \cup UNION {{Composite(kind, items) :
                        items \in ItemsOf(kind, KeysOf(kind, mapKeys), vals, max)} :
                    kind \in {"array", "map", "set", "object"}}

\* value graphs of two composites, the first the value encoded: scalars, big
\* integers, dates, lists, Maps, Sets and objects with shared members and
\* cycles
GraphInputs ==
    {Input(<<n1, n2>>, Node(1), <<>>, {}) :
        n1 \in NodesOver({Num(1), Node(2)}, Scalars \cup {Node(1), Node(2)}, MaxItems),
        n2 \in NodesOver({Num(1), Node(2)}, {Big(-7), Node(1), Node(2)}, 1)}

\* lists of tokens, encoded with a table of the caller
TokenInputs ==
    {Input(<<Composite("array", items)>>, Node(1), symbols, {}) :
        items \in SeqsUpTo({Element(Sym(k)) : k \in Tokens}, MaxItems),
        symbols \in SymbolTables}

\* a list that holds a scalar, an object, a token and null, encoded with a
\* blocklist
BlockInputs ==
    {Input(<<Composite("array", <<Element(Num(1)), Element(Node(2)), Element(Sym(1)),
                                  Element(Null), Element(Node(2))>>),
             Composite("object", <<Entry(Str(1), Node(3))>>),
             Composite("array", <<>>)>>,
           root, <<>>, blocklist) :
        root \in {Node(1), Num(1)},
        blocklist \in (SUBSET {Num(1), Node(1), Node(2), Sym(1), Null}) \ {{}}}

\* wire nodes no Encode made: a list holding a reference to itself and one
\* to an id nobody registered, a node of an unknown kind, a bigint with text
\* that is no number, and a symbol without a name
Wires ==
    {[Leaf("array") EXCEPT !.ref = 0, !.items =
         <<Entry(NoWire, [Leaf("ref") EXCEPT !.val = 0]),
           Entry(NoWire, [Leaf("ref") EXCEPT !.val = 5])>>],
     [Leaf("weird") EXCEPT !.vt = "number", !.val = 5],
     [Leaf("bigint") EXCEPT !.str = <<0, 11>>],
     Leaf("symbol")}

Inputs ==
    GraphInputs \cup TokenInputs \cup BlockInputs \cup {WireInput(w) : w \in Wires}

-----------------------------------------------------------------------------
(* serialize and load: the codec applied to Database._data                   *)

\* the strings of a snapshot, numbered by their place
Names == <<"t", "records", "indices", "lastUID", "c">>
StrOf(name) == Str(CHOOSE i \in 1..Len(Names) : Names[i] = name)

\* the symbol table serialize and load pass: {__id: UniqueID}, the token
\* UniqueID being token 1
IdTable == <<[name |-> UniqueID, token |-> 1]>>

\* The value graph that hangs from _data.  Its nodes: 1 is _data, 2 the
\* table, 3 the Map records, 4 the object indices, 5 the Map of the index on
\* column c, 6.. the bucket Sets by key, and then one node for every plain
\* object and for every proxy of it: a proxy is a value of its own to the
\* refs of Encode, with the members of its target.
BucketNode(k) == 6 + k
ObjNode(h) == 9 + (MaxWrap + 1) * (IF h[1] = "o1" THEN 0 ELSE 1) + h[2]

\* the members of a set of numbers in ascending order
RECURSIVE Ascending(_)
Ascending(S) ==
    IF S = {} THEN <<>>
    ELSE LET least == CHOOSE x \in S : \A y \in S : x <= y
         IN  <<least>> \o Ascending(S \ {least})

\* a value of the model's heap as a value of the codec
ValueOf(v) == IF v = UNDEF THEN Undefined ELSE Num(v)

\* what for..in and Object.getOwnPropertySymbols find on a record, read
\* through handle h: column c if the object owns it, and the identifier
RecordItems(s, h) ==
    (IF s.heap[h[1]]["c"] = ABSENT THEN <<>>
     ELSE <<Entry(StrOf("c"), ValueOf(s.heap[h[1]]["c"]))>>)
    \o (IF s.heap[h[1]][UniqueID] = ABSENT THEN <<>>
        ELSE <<Entry(Sym(1), Big(s.heap[h[1]][UniqueID]))>>)

StoreGraph(s) ==
    LET ids     == Ascending(DOMAIN s.data.records)
        cols    == DOMAIN s.data.indices
        buckets == IF "c" \in cols
                   THEN Ascending({k \in Keys : s.data.indices["c"][k] # {}})
                   ELSE <<>>
    IN  [n \in 1..(8 + 2 * (MaxWrap + 1)) |->
            CASE n = 1 -> Composite("object",
                              IF s.data.exists THEN <<Entry(StrOf("t"), Node(2))>> ELSE <<>>)
              [] n = 2 -> Composite("object",
                              <<Entry(StrOf("records"), Node(3)), Entry(StrOf("indices"), Node(4))>>
                              \o (IF s.data.lastUID = 0 THEN <<>>
                                  ELSE <<Entry(StrOf("lastUID"), Big(s.data.lastUID))>>))
              [] n = 3 -> Composite("map",
                              [i \in 1..Len(ids) |->
                                  Entry(Big(ids[i]), Node(ObjNode(s.data.records[ids[i]])))])
              [] n = 4 -> Composite("object",
                              IF "c" \in cols THEN <<Entry(StrOf("c"), Node(5))>> ELSE <<>>)
              [] n = 5 -> Composite("map",
                              [i \in 1..Len(buckets) |->
                                  Entry(ValueOf(buckets[i]), Node(BucketNode(buckets[i])))])
              [] n \in 6..8 ->
                     Composite("set",
                         IF "c" \in cols
                         THEN LET members == Ascending({ObjNode(h) : h \in s.data.indices["c"][n - 6]})
                              IN  [i \in 1..Len(members) |-> Element(Node(members[i]))]
                         ELSE <<>>)
              [] OTHER ->
                     LET h == CHOOSE h \in Handles : ObjNode(h) = n
                     IN  Composite("object", RecordItems(s, h))]

\* JSON.parse(JSON.stringify(encoded)): the properties of a wire node that
\* JSON keeps; a val that is undefined is dropped and read as undefined again
RECURSIVE ParseStringify(_)
ParseStringify(wire) ==
    [type  |-> wire.type,
     vt    |-> wire.vt,
     val   |-> IF wire.vt = "undefined" /\ wire.type # "ref" THEN 0 ELSE wire.val,
     str   |-> wire.str,
     name  |-> wire.name,
     named |-> wire.named,
     ref   |-> wire.ref,
     items |-> [i \in 1..Len(wire.items) |->
                   Entry(IF wire.items[i].key.type = "none" THEN NoWire
                         ELSE ParseStringify(wire.items[i].key),
                         ParseStringify(wire.items[i].val))]]

\* serialize()
Serialize(s) == Encode(Node(1), Encoder(StoreGraph(s), IdTable, {})).wire

\* what load(serialize()) makes _data: the value decoded and its graph
Load(s) == Decode(ParseStringify(Serialize(s)), Decoder(IdTable))

\* the value a Map or object of a graph holds under a key, undefined if none
Member(graph, n, key) ==
    IF \E i \in 1..Len(graph[n].items) : graph[n].items[i].key = key
    THEN graph[n].items[CHOOSE i \in 1..Len(graph[n].items) : graph[n].items[i].key = key].val
    ELSE Undefined

-----------------------------------------------------------------------------
(* FSDatabase: the store that saves itself to a file on a timer              *)

\* new FSDatabase(path) where no file exists yet: _hasUpdates is 0, nothing
\* has been written, and the clock (Date.now()) stands at 1; unsaved tells
\* whether the store was changed since it was last written to the file
NoFile == [_hasUpdates |-> 0, now |-> 1, file |-> NoWire, unsaved |-> FALSE]

\* the overrides of onUpdateRecord, onUpdateTable, commitTransaction and
\* rollbackTransaction: after the inherited method, _hasUpdates = Date.now()
HasUpdates(f) == [f EXCEPT !._hasUpdates = f.now, !.unsaved = TRUE]

\* saveFileSync: writeFileSync(path, serialize()) in a try block whose catch
\* logs the error; written tells whether writeFileSync returned or threw
SaveFileSync(f, s, written) ==
    IF written THEN [f EXCEPT !.file = Serialize(s), !.unsaved = FALSE] ELSE f

\* the callback createPeriodicSaveTimer gives to setInterval
SaveTimer(f, s, written) ==
    IF f._hasUpdates # 0 /\ f.now - f._hasUpdates >= Interval
    THEN [SaveFileSync(f, s, written) EXCEPT !._hasUpdates = 0]
    ELSE f

-----------------------------------------------------------------------------
(* What the properties observe *)

\* records, indices and counter of the table, and the contents of the objects
Snapshot(s) == [heap |-> s.heap, data |-> s.data, nested |-> s.nested]

\* what a rollback undoes: the depth of its frame, the store at the frame's
\* beginTransaction (snap) and right before the rollback (before), the frame's
\* changes, and whether transactions were begun or rolled back inside the frame
NoUndo == [depth |-> 0, snap |-> [heap |-> EmptyMap, data |-> NoTable, nested |-> EmptyMap],
           before |-> [heap |-> EmptyMap, data |-> NoTable, nested |-> EmptyMap],
           changes |-> <<>>, innerBegin |-> FALSE, innerRollback |-> FALSE]

\* the last call: its name, the error it threw, and
\*   h, key, old: the handle, the column and the value replaced (set, delete),
\*   h, stored: the handle, and whether its object was the table's entry under
\*              its identifier when the call was made (removeRecord),
\*   undone: what a rollback had to undo
Call(op, err) ==
    [op |-> op, err |-> err, h |-> NoHandle, key |-> "", old |-> UNDEF,
     stored |-> FALSE, undone |-> NoUndo]

\* whether handle h denotes the entry the table holds under h's identifier
IsEntry(s, h) ==
    /\ s.data.exists
    /\ Read(s, h, UniqueID) \in DOMAIN s.data.records
    /\ s.data.records[Read(s, h, UniqueID)][1] = h[1]

Bounded(s) ==
    /\ \A o \in Objs : s.wrapped[o] <= MaxWrap
    /\ s.data.lastUID <= MaxUID
    /\ Len(s.tx) <= MaxDepth
    /\ \A i \in 1..Len(s.tx) : Len(s.tx[i]) <= MaxChanges
    /\ \A o \in Objs : Len(s.nested[o].hobbies) <= MaxLen

\* the state after a call
Changes(s) ==
    \/ s.heap # heap
    \/ s.wrapped # _wrapped
    \/ s.data # _data
    \/ s.nested # nested
    \/ s.tx # _transactions

\* A call is a step when it changes the program's state or throws; a call
\* that only reports a miss and returns leaves every variable as it was.
Becomes(s) ==
    /\ Changes(s) \/ s.thrown # ""
    /\ calls < MaxCalls
    /\ calls' = calls + 1
    /\ Bounded(s)
    /\ heap' = s.heap
    /\ _wrapped' = s.wrapped
    /\ _data' = s.data
    /\ nested' = s.nested
    /\ _transactions' = s.tx
    /\ hook' = s.hook
    /\ UNCHANGED <<codec, fs>>

\* the handles a caller can hold: the plain object and every proxy made of it
Held == {h \in Handles : h[2] <= _wrapped[h[1]]}
\* the objects the table stores, under whichever handle
StoredObjs(s) == {r[1] : r \in Range(s.data.records)}

\* a caller's object literal { c: v } (or {} for ABSENT), built before the call
\* the caller's objects are interchangeable: "o2" is used once "o1" has been
InOrder(o) == o = "o1" \/ heap["o1"][UniqueID] # ABSENT

Literal(s, o, v) ==
    IF s.heap[o][UniqueID] = ABSENT /\ o \notin StoredObjs(s)
    THEN [s EXCEPT !.heap[o] = [k \in Cols \cup {UniqueID} |-> IF k = UniqueID THEN ABSENT ELSE v]]
    ELSE s

-----------------------------------------------------------------------------
(* Actions: one call of the public interface each *)

Init ==
    /\ heap = [o \in Objs |-> [k \in Cols \cup {UniqueID} |-> ABSENT]]
    /\ _wrapped = [o \in Objs |-> 0]
    /\ _data = NoTable
    /\ nested = [o \in Objs |-> NoContainers]
    /\ _transactions = <<>>
    /\ hook = <<>>
    /\ last = Call("new", "")
    /\ snaps = <<>>
    /\ calls = 0
    /\ codec = Idle
    /\ fs = NoFile

DoCreateTable ==
    \E indexKeys \in SUBSET Cols :
        /\ Becomes(CreateTable(State, indexKeys))
        /\ last' = Call("createTable", "")
        /\ UNCHANGED snaps

DoDeleteTable ==
    /\ Becomes(DeleteTable(State))
    /\ last' = Call("deleteTable", "")
    /\ UNCHANGED snaps

DoAddIndex ==
    \E col \in Cols :
        /\ Becomes(AddIndex(State, col))
        /\ last' = [Call("addIndex", "") EXCEPT !.key = col]
        /\ UNCHANGED snaps

DoRemoveIndex ==
    \E col \in Cols :
        /\ Becomes(RemoveIndex(State, col))
        /\ last' = [Call("removeIndex", "") EXCEPT !.key = col]
        /\ UNCHANGED snaps

DoAddRecord ==
    \E o \in Objs, v \in Values \cup {ABSENT} :
        LET s == AddRecord(Literal(State, o, v), <<o, 0>>, TRUE)
        IN  /\ InOrder(o)
            /\ Becomes(IF s.thrown = "" THEN s ELSE [State EXCEPT !.thrown = s.thrown])
            /\ last' = [Call("addRecord", s.thrown) EXCEPT !.h = <<o, 0>>]
            /\ UNCHANGED snaps

DoSetRecord ==
    \E o \in Objs, v \in Values \cup {ABSENT}, uid \in 1..MaxUID :
        LET s == SetRecord(Literal(State, o, v), <<o, 0>>, uid, TRUE)
        IN  /\ InOrder(o)
            /\ Becomes(IF s.thrown = "" THEN s ELSE [State EXCEPT !.thrown = s.thrown])
            /\ last' = [Call("setRecord", s.thrown) EXCEPT !.h = <<o, 0>>]
            /\ UNCHANGED snaps

DoRemoveRecord ==
    \E h \in Held :
        /\ Becomes(RemoveRecord(State, h))
        /\ last' = [Call("removeRecord", "") EXCEPT !.h = h, !.stored = IsEntry(State, h)]
        /\ UNCHANGED snaps

DoGetAllRecords ==
    LET s == GetAllRecordsCall(State)
    IN  /\ Becomes(s)
        /\ last' = Call("getAllRecords", s.thrown)
        /\ UNCHANGED snaps

DoGetRecordsByColumn ==
    \E col \in Cols, value \in Keys :
        /\ GetRecordsByColumn(State, col, value) # {}
        /\ Becomes(WrapAll(State, GetRecordsByColumn(State, col, value)))
        /\ last' = Call("getRecordsByColumn", "")
        /\ UNCHANGED snaps

\* record.col = value through a proxy of a stored record
DoFieldSet ==
    \E h \in Held, col \in Cols, value \in Values :
        /\ h[2] >= 1
        /\ h[1] \in StoredObjs(State)
        /\ Becomes(ProxySet(State, h, col, value))
        /\ last' = [Call("set", "") EXCEPT !.h = h, !.key = col, !.old = Read(State, h, col)]
        /\ UNCHANGED snaps

\* delete record.col through a proxy of a stored record
DoFieldDelete ==
    \E h \in Held, col \in Cols :
        /\ h[2] >= 1
        /\ h[1] \in StoredObjs(State)
        /\ Becomes(ProxyDelete(State, h, col))
        /\ last' = [Call("delete", "") EXCEPT !.h = h, !.key = col, !.old = Read(State, h, col)]
        /\ UNCHANGED snaps

\* the containers a caller's object literal may hold
ContainerLiterals ==
    [hobbies           : {<<>>, <<1, 2>>},
     contactDetails    : {[k \in Values |-> ABSENT], [k \in Values |-> IF k = 1 THEN 1 ELSE ABSENT]},
     previousAddresses : {{}, {1}},
     pager : {1}, friend : {1}, member : {1}, addresses : {{}}]

\* a literal { c: v, hobbies: [...], contactDetails: new Map(...),
\* previousAddresses: new Set(...) }
LiteralWith(s, o, v, containers) ==
    IF s.heap[o][UniqueID] = ABSENT /\ o \notin StoredObjs(s)
    THEN [Literal(s, o, v) EXCEPT !.nested[o] = containers]
    ELSE s

\* the records whose containers the model changes: stored, their handle from
\* addRecord held, and a transaction open (what a container holds before the
\* transaction is what its literal held)
Records == {o \in StoredObjs(State) : _wrapped[o] >= 1 /\ Len(_transactions) > 0}
\* the arguments of push and unshift
Items == {<<2>>, <<1, 2>>}

\* addRecord of a literal that holds a list, a Map and a Set
DoAddNested ==
    \E o \in Objs, v \in {ABSENT, 1}, containers \in ContainerLiterals :
        LET s == AddRecord(LiteralWith(State, o, v, containers), <<o, 0>>, TRUE)
        IN  /\ InOrder(o)
            /\ heap[o][UniqueID] = ABSENT
            /\ Cardinality(StoredObjs(State)) < MaxNested
            /\ Becomes(IF s.thrown = "" THEN s ELSE [State EXCEPT !.thrown = s.thrown])
            /\ last' = [Call("addRecord", s.thrown) EXCEPT !.h = <<o, 0>>]
            /\ UNCHANGED snaps

\* record.hobbies.push(...items)
DoListPush ==
    \E o \in Records, items \in Items :
        /\ Becomes(ListPush(State, o, items))
        /\ last' = [Call("push", "") EXCEPT !.h = <<o, 1>>]
        /\ UNCHANGED snaps

\* record.hobbies.unshift(...items)
DoListUnshift ==
    \E o \in Records, items \in Items :
        /\ Becomes(ListUnshift(State, o, items))
        /\ last' = [Call("unshift", "") EXCEPT !.h = <<o, 1>>]
        /\ UNCHANGED snaps

\* record.hobbies.pop()
DoListPop ==
    \E o \in Records :
        /\ Becomes(ListPop(State, o))
        /\ last' = [Call("pop", "") EXCEPT !.h = <<o, 1>>]
        /\ UNCHANGED snaps

\* record.hobbies.shift()
DoListShift ==
    \E o \in Records :
        /\ Becomes(ListShift(State, o))
        /\ last' = [Call("shift", "") EXCEPT !.h = <<o, 1>>]
        /\ UNCHANGED snaps

\* record.hobbies.splice(start, deleteCount, ...items)
DoListSplice ==
    \E o \in Records, start \in 0..1, deleteCount \in 0..1, items \in {<<2>>} :
        /\ Becomes(ListSplice(State, o, start, deleteCount, items))
        /\ last' = [Call("splice", "") EXCEPT !.h = <<o, 1>>]
        /\ UNCHANGED snaps

\* record.contactDetails.set(k, v)
DoMapSet ==
    \E o \in Records, k \in Values, v \in {2} :
        /\ Becomes(MapSet(State, o, k, v))
        /\ last' = [Call("Map.set", "") EXCEPT !.h = <<o, 1>>]
        /\ UNCHANGED snaps

\* record.contactDetails.delete(k)
DoMapDelete ==
    \E o \in Records, k \in Values :
        /\ Becomes(MapDelete(State, o, k))
        /\ last' = [Call("Map.delete", "") EXCEPT !.h = <<o, 1>>]
        /\ UNCHANGED snaps

\* record.contactDetails.clear()
DoMapClear ==
    \E o \in Records :
        /\ Becomes(MapClear(State, o))
        /\ last' = [Call("Map.clear", "") EXCEPT !.h = <<o, 1>>]
        /\ UNCHANGED snaps

\* record.previousAddresses.add(v)
DoSetAdd ==
    \E o \in Records, v \in Values :
        /\ Becomes(SetAdd(State, o, v))
        /\ last' = [Call("Set.add", "") EXCEPT !.h = <<o, 1>>]
        /\ UNCHANGED snaps

\* record.previousAddresses.delete(v)
DoSetDelete ==
    \E o \in Records, v \in Values :
        /\ Becomes(SetDelete(State, o, v))
        /\ last' = [Call("Set.delete", "") EXCEPT !.h = <<o, 1>>]
        /\ UNCHANGED snaps

\* record.previousAddresses.clear()
DoSetClear ==
    \E o \in Records :
        /\ Becomes(SetClear(State, o))
        /\ last' = [Call("Set.clear", "") EXCEPT !.h = <<o, 1>>]
        /\ UNCHANGED snaps

\* the stored records whose handle from addRecord the caller holds
Reached == {o \in StoredObjs(State) : _wrapped[o] >= 1}

DoSetPager ==
    \E o \in Reached, v \in Values :
        /\ Becomes(SetPager(State, o, v))
        /\ last' = [Call("contact.special.pager", "") EXCEPT !.h = <<o, 1>>, !.key = "contact"]
        /\ UNCHANGED snaps

DoSetFriend ==
    \E o \in Reached, v \in Values :
        /\ Becomes(SetFriend(State, o, v))
        /\ last' = [Call("friends[0].name", "") EXCEPT !.h = <<o, 1>>, !.key = "friends"]
        /\ UNCHANGED snaps

DoAddAddress ==
    \E o \in Reached, how \in {"get"} \cup MapForms, v \in Values :
        /\ Becomes(AddAddress(State, o, how, v))
        /\ last' = [Call("directory." \o how, "") EXCEPT !.h = <<o, 1>>, !.key = "directory"]
        /\ UNCHANGED snaps

DoSetMember ==
    \E o \in Reached, how \in SetForms, v \in Values :
        /\ Becomes(SetMember(State, o, how, v))
        /\ last' = [Call("group." \o how, "") EXCEPT !.h = <<o, 1>>, !.key = "group"]
        /\ UNCHANGED snaps

DoBeginTransaction ==
    /\ Becomes(BeginTransaction(State))
    /\ last' = Call("beginTransaction", "")
    /\ snaps' = Append([i \in 1..Len(snaps) |-> [snaps[i] EXCEPT !.innerBegin = TRUE]],
                       [NoUndo EXCEPT !.depth = Len(snaps) + 1, !.snap = Snapshot(State)])

DoCommitTransaction ==
    LET s == CommitTransaction(State)
    IN  /\ Becomes(s)
        /\ last' = Call("commitTransaction", s.thrown)
        /\ snaps' = SubSeq(snaps, 1, Len(snaps) - 1)

DoRollbackTransaction ==
    LET s == RollbackTransaction(State)
    IN  /\ Becomes(s)
        /\ last' = [Call("rollbackTransaction", s.thrown) EXCEPT
                      !.undone = IF Len(snaps) = 0 THEN NoUndo
                                 ELSE [snaps[Len(snaps)] EXCEPT
                                         !.changes = _transactions[Len(_transactions)],
                                         !.before = Snapshot(State)]]
        /\ snaps' = [i \in 1..(Len(snaps) - 1) |->
                        [snaps[i] EXCEPT !.innerRollback = TRUE]]

\* the callbacks a caller may give to transaction(): assignments through
\* the handles it holds of stored records, records it adds, each once, and
\* a throw
Callbacks ==
    LET statements ==
            {Statement("set", o, v) : o \in Reached, v \in Values}
            \cup {Statement("add", o, v) :
                     o \in {o \in Objs : heap[o][UniqueID] = ABSENT /\ InOrder(o)},
                     v \in {1, ABSENT}}
            \cup {Statement("throw", "", UNDEF)}
    IN  {cb \in UNION {[1..n -> statements] : n \in 1..MaxSteps} :
            \A i, j \in 1..Len(cb) :
                (cb[i].op = "add" /\ cb[j].op = "add" /\ cb[i].o = cb[j].o) => i = j}

\* db.transaction(cb)()
DoTransaction ==
    \E cb \in Callbacks :
        LET s == Transaction(State, cb)
        IN  /\ Becomes(s)
            /\ last' = [Call("transaction", s.thrown) EXCEPT
                          !.key = Try(BeginTransaction(State), cb).thrown]
            /\ snaps' = [i \in 1..Len(snaps) |->
                            [snaps[i] EXCEPT !.innerBegin = TRUE,
                                             !.innerRollback = @ \/ s.thrown # ""]]

\* a call on an FSDatabase that changes the store; reported tells whether
\* it called onUpdateRecord or onUpdateTable
OnFSDatabase(s, reported) ==
    /\ Changes(s)
    /\ calls < MaxCalls
    /\ calls' = calls + 1
    /\ Bounded(s)
    /\ heap' = s.heap
    /\ _wrapped' = s.wrapped
    /\ _data' = s.data
    /\ nested' = s.nested
    /\ _transactions' = s.tx
    /\ hook' = s.hook
    /\ fs' = IF reported THEN HasUpdates(fs) ELSE fs
    /\ UNCHANGED <<codec, snaps>>

\* createTable reports a table it creates and every index it adds
DoFSCreateTable ==
    \E indexKeys \in SUBSET Cols :
        /\ OnFSDatabase(CreateTable(State, indexKeys),
                        CreateTable(State, indexKeys).data # _data)
        /\ last' = Call("createTable", "")

DoFSAddRecord ==
    \E o \in Objs, v \in {1, ABSENT} :
        LET s == AddRecord(Literal(State, o, v), <<o, 0>>, TRUE)
        IN  /\ InOrder(o)
            /\ heap[o][UniqueID] = ABSENT
            /\ s.thrown = ""
            /\ OnFSDatabase(s, Len(s.hook) > 0)
            /\ last' = [Call("addRecord", "") EXCEPT !.h = <<o, 0>>]

\* record.col = value through the handle addRecord returned
DoFSFieldSet ==
    \E o \in Reached, col \in Cols, value \in Values :
        LET s == ProxySet(State, <<o, 1>>, col, value)
        IN  /\ OnFSDatabase(s, Len(s.hook) > 0)
            /\ last' = [Call("set", "") EXCEPT !.h = <<o, 1>>, !.key = col,
                                               !.old = Read(State, <<o, 1>>, col)]

\* the clock advances by one unit; when it reaches a multiple of the
\* interval the timer fires, and the write of the file succeeds or fails
DoElapse ==
    /\ fs.now < MaxNow
    /\ (fs.now + 1) % Interval # 0
    /\ fs' = [fs EXCEPT !.now = @ + 1]
    /\ last' = Call("elapse", "")
    /\ UNCHANGED <<heap, _wrapped, _data, nested, _transactions, hook, snaps, calls, codec>>

DoSaveTimer ==
    /\ fs.now < MaxNow
    /\ (fs.now + 1) % Interval = 0
    /\ \E written \in BOOLEAN :
          /\ fs' = SaveTimer([fs EXCEPT !.now = @ + 1], State, written)
          /\ last' = [Call("saveTimer", "") EXCEPT !.stored = written]
    /\ UNCHANGED <<heap, _wrapped, _data, nested, _transactions, hook, snaps, calls, codec>>

\* Obj2Obj.Encode(root, symbols, undefined, blocklist)
DoEncode ==
    /\ codec.phase = "input"
    /\ LET r == Encode(codec.root, Encoder(codec.graph, codec.symbols, codec.blocklist))
       IN  codec' = [codec EXCEPT !.phase = "encoded", !.wire = r.wire, !.e = r.e]
    /\ last' = Call("Encode", "")
    /\ UNCHANGED <<heap, _wrapped, _data, nested, _transactions, hook, snaps, calls, fs>>

\* Obj2Obj.Decode(wire, symbols): the caller passes a table like the one it
\* gave Encode, or the very table Encode was given and has written to
DoDecode ==
    /\ codec.phase \in {"encoded", "wire"}
    /\ \E symbols \in {codec.symbols, codec.e.symbols} :
          LET r == Decode(codec.wire, Decoder(symbols))
          IN  /\ codec' = [codec EXCEPT
                             !.phase = IF codec.phase = "wire" THEN "decoded wire" ELSE "decoded",
                             !.value = r.value, !.d = r.d]
              /\ last' = Call("Decode", r.d.thrown)
    /\ UNCHANGED <<heap, _wrapped, _data, nested, _transactions, hook, snaps, calls, fs>>

\* The store without transactions: tables, indices, records, lookups and
\* writes through the proxies.
Next ==
    \/ DoCreateTable
    \/ DoDeleteTable
    \/ DoAddIndex
    \/ DoRemoveIndex
    \/ DoAddRecord
    \/ DoSetRecord
    \/ DoRemoveRecord
    \/ DoGetAllRecords
    \/ DoGetRecordsByColumn
    \/ DoFieldSet
    \/ DoFieldDelete

Spec == Init /\ [][Next]_vars

\* The transaction log: every call that produces a change event, inside and
\* outside of nested transactions.
NextTx ==
    \/ DoCreateTable
    \/ DoAddRecord
    \/ DoSetRecord
    \/ DoRemoveRecord
    \/ DoGetRecordsByColumn
    \/ DoFieldSet
    \/ DoFieldDelete
    \/ DoBeginTransaction
    \/ DoCommitTransaction
    \/ DoRollbackTransaction

SpecTx == Init /\ [][NextTx]_vars

\* Changes to one record inside and outside of transactions: its fields, its
\* list, its Map and its Set.
NextNested ==
    \/ DoCreateTable
    \/ DoAddNested
    \/ DoFieldSet
    \/ DoFieldDelete
    \/ DoListPush
    \/ DoListUnshift
    \/ DoListPop
    \/ DoListShift
    \/ DoListSplice
    \/ DoMapSet
    \/ DoMapDelete
    \/ DoMapClear
    \/ DoSetAdd
    \/ DoSetDelete
    \/ DoSetClear
    \/ DoBeginTransaction
    \/ DoCommitTransaction
    \/ DoRollbackTransaction

SpecNested == Init /\ [][NextNested]_vars

\* Transactions over a table that may be deleted while a frame is open.
NextAtomic ==
    \/ DoCreateTable
    \/ DoDeleteTable
    \/ DoAddRecord
    \/ DoRemoveRecord
    \/ DoFieldSet
    \/ DoBeginTransaction
    \/ DoRollbackTransaction

SpecAtomic == Init /\ [][NextAtomic]_vars

\* Transactions run through transaction(cb), inside and outside of a frame
\* that is open already.
NextCallback ==
    \/ DoCreateTable
    \/ DoAddRecord
    \/ DoBeginTransaction
    \/ DoTransaction

SpecCallback == Init /\ [][NextCallback]_vars

\* An FSDatabase with its periodic save timer running.
NextFS ==
    \/ DoFSCreateTable
    \/ DoFSAddRecord
    \/ DoFSFieldSet
    \/ DoElapse
    \/ DoSaveTimer

SpecFS == Init /\ [][NextFS]_vars

\* Changes to values nested two levels below a record, outside transactions.
NextPaths ==
    \/ DoCreateTable
    \/ DoAddNested
    \/ DoSetPager
    \/ DoSetFriend
    \/ DoAddAddress
    \/ DoSetMember

SpecPaths == Init /\ [][NextPaths]_vars

\* The codec alone: a value graph, or a wire node, is given, encoded and
\* decoded.
InitCodec ==
    /\ heap = [o \in Objs |-> [k \in Cols \cup {UniqueID} |-> ABSENT]]
    /\ _wrapped = [o \in Objs |-> 0]
    /\ _data = NoTable
    /\ nested = [o \in Objs |-> NoContainers]
    /\ _transactions = <<>>
    /\ hook = <<>>
    /\ last = Call("new", "")
    /\ snaps = <<>>
    /\ calls = 0
    /\ codec \in Inputs
    /\ fs = NoFile

NextCodec ==
    \/ DoEncode
    \/ DoDecode

SpecCodec == InitCodec /\ [][NextCodec]_vars

-----------------------------------------------------------------------------
(* Properties *)

\* the objects a set of handles denotes
ObjsOf(hs) == {h[1] : h \in hs}
\* the objects filed under key k of the index on col
InBucket(col, k) == ObjsOf(_data.indices[col][k])
\* the indexed columns
Indexed == IF _data.exists THEN DOMAIN _data.indices ELSE {}

\* C1: in every reachable state, for every indexed column C and every stored
\* record R: R with a defined value v at C is a member of the bucket of v and
\* of no other bucket of C; R with an undefined value at C is a member of no
\* bucket of C; and no bucket of C holds a record the table does not store.
\* Membership is taken up to wrapping: any handle of R counts as R.
C1_IndexInvariant ==
    \A col \in Indexed :
        /\ \A r \in Range(_data.records) :
              LET v == Read(State, r, col)
              IN  /\ v # UNDEF => r[1] \in InBucket(col, v)
                  /\ \A k \in Keys \ {v} : r[1] \notin InBucket(col, k)
                  /\ v = UNDEF => \A k \in Keys : r[1] \notin InBucket(col, k)
        /\ \A k \in Keys : InBucket(col, k) \subseteq StoredObjs(State)

\* C2: for every indexed column C and every value v, undefined included, the
\* bucket lookup of getRecordsByColumn returns the same records as the linear
\* scan (filter R[C] === v over the stored records) returns in the same state.
C2_IndexedEqualsScan ==
    \A col \in Indexed : \A v \in Keys :
        ObjsOf(BucketLookup(State, col, v)) = ObjsOf(LinearScan(State, col, v))

\* C3: after removeRecord(T, R) on a stored record R, given as the plain
\* object or as any handle of it, getRecord(T, id of R) returns nothing,
\* getAllRecords(T) does not contain R and getRecordsByColumn(T, C, v) does
\* not return R for any column C, indexed or not, and any value v.
C3_RemovedIsGone ==
    (last.op = "removeRecord" /\ last.stored) =>
        LET o == last.h[1] IN
        /\ GetRecord(State, Read(State, last.h, UniqueID)) = {}
        /\ o \notin ObjsOf(GetAllRecords(State))
        /\ \A col \in Cols : \A v \in Keys :
              o \notin ObjsOf(GetRecordsByColumn(State, col, v))

\* C5: after record.field = v2 through a handle of a stored record, where
\* field is indexed and held v1 # v2 before, the record is a member of the
\* bucket of v2 and of no other bucket of that column, however the index was
\* populated and whichever lookup produced the handle.
C5_SetMovesBucket ==
    (/\ last.op = "set"
     /\ last.key \in Indexed
     /\ last.old # Read(State, last.h, last.key)) =>
        LET o  == last.h[1]
            v2 == Read(State, last.h, last.key)
        IN  /\ o \in InBucket(last.key, v2)
            /\ \A k \in Keys \ {v2} : o \notin InBucket(last.key, k)

-----------------------------------------------------------------------------
(* Properties of the transaction log *)

\* the frame the last rollback popped
Undone == last.undone
RolledBack == last.op = "rollbackTransaction" /\ last.err = ""
\* the changes of a given type in the popped frame
ChangesOf(type) == {i \in 1..Len(Undone.changes) : Undone.changes[i].type = type}
\* the objects a snapshot's table stores
StoredAt(snap) == {r[1] : r \in Range(snap.data.records)}
\* the handles of object o filed under key k of the index on col
Members(col, k, o) == {h \in _data.indices[col][k] : h[1] = o}

\* the changes made to a record and to what it holds
Mutations ==
    {"set", "delete", "method.push", "method.pop", "method.shift", "method.unshift",
     "method.splice", "method.set", "method.delete", "method.add", "method.clear"}

\* C4: for a single, non-nested transaction, whatever field assignments,
\* field deletions, Map and Set operations and list operations were made
\* between beginTransaction and rollbackTransaction, every record and every
\* nested structure is after the rollback equal, property by property and
\* element by element, to what it was right before beginTransaction.  A
\* property left holding undefined counts as equal to a property not there.
C4_RollbackRestoresMutations ==
    (/\ RolledBack
     /\ Undone.depth = 1
     /\ ~Undone.innerBegin
     /\ \A i \in 1..Len(Undone.changes) : Undone.changes[i].type \in Mutations) =>
        /\ \A o \in Objs : \A k \in Cols \cup {UniqueID} :
              Read(State, <<o, 0>>, k) = Read(Undone.snap, <<o, 0>>, k)
        /\ nested = Undone.snap.nested

\* C6: rolling back a frame that contains a record-removed event puts that
\* record back under the identifier it had before the removal, the table's
\* last-assigned counter is not advanced, and the record is a member of each
\* applicable index bucket exactly once.  Stated for a frame whose only
\* change is the removal.
C6_RemovedComesBackUnderItsId ==
    (/\ RolledBack
     /\ Len(Undone.changes) = 1
     /\ Undone.changes[1].type = "removed") =>
        LET h  == Undone.changes[1].record
            id == Undone.before.heap[h[1]][UniqueID]
        IN  /\ id \in DOMAIN _data.records
            /\ _data.records[id][1] = h[1]
            /\ heap[h[1]][UniqueID] = id
            /\ _data.lastUID = Undone.before.data.lastUID
            /\ \A col \in Indexed :
                  Read(State, h, col) # UNDEF =>
                      Cardinality(Members(col, Read(State, h, col), h[1])) = 1

\* C7: after a rollback, every record added by addRecord or setRecord inside
\* the frame is absent from the record map and from every index bucket, and
\* every record stored before beginTransaction is still stored and indexed.
C7_AddedAreGoneOthersStay ==
    RolledBack =>
        LET added == {Undone.changes[i].record[1] : i \in ChangesOf("added")}
                         \ StoredAt(Undone.snap)
        IN  /\ \A o \in added :
                  /\ o \notin StoredObjs(State)
                  /\ \A col \in Indexed : \A k \in Keys : o \notin InBucket(col, k)
            /\ \A o \in StoredAt(Undone.snap) :
                  /\ o \in StoredObjs(State)
                  /\ \A col \in Indexed :
                        Read(State, <<o, 0>>, col) # UNDEF =>
                            o \in InBucket(col, Read(State, <<o, 0>>, col))

\* records and indices are what they were in snap: the same objects are
\* stored, under the same identifiers and with the same column values, and
\* every bucket files the same objects
Restored(snap) ==
    /\ DOMAIN _data.records = DOMAIN snap.data.records
    /\ \A id \in DOMAIN _data.records :
          /\ _data.records[id][1] = snap.data.records[id][1]
          /\ \A col \in Cols :
                Read(State, _data.records[id], col)
                    = Read(snap, snap.data.records[id], col)
    /\ \A col \in DOMAIN _data.indices : \A k \in Keys :
          InBucket(col, k) = ObjsOf(snap.data.indices[col][k])

\* the table and its set of indices are those of snap: both are created and
\* dropped by calls no transaction records
SameSchema(snap) ==
    /\ snap.data.exists /\ _data.exists
    /\ DOMAIN _data.indices = DOMAIN snap.data.indices

\* C8: an inner rollback leaves the outer frame open, and the rollback of a
\* frame inside which a transaction was begun and rolled back restores
\* records and indices to their state immediately before that frame's begin.
C8_OuterRollbackAfterInner ==
    RolledBack =>
        /\ Len(_transactions) = Undone.depth - 1
        /\ (Undone.innerRollback /\ SameSchema(Undone.snap)) => Restored(Undone.snap)

\* C33: the rollback of a frame inside which a transaction was begun and
\* committed, and none rolled back, undoes what was done inside the
\* committed transaction too: records and indices are what they were
\* immediately before the outer frame's begin.
C33_OuterRollbackUndoesInnerCommit ==
    (/\ RolledBack
     /\ Undone.innerBegin /\ ~Undone.innerRollback
     /\ SameSchema(Undone.snap)) => Restored(Undone.snap)

\* C38: rollbackTransaction is all-or-nothing: a call of it that throws,
\* part-way through the inverses or before the first, leaves the records,
\* the indices, the contents of the records and the stack of frames as they
\* were before the call.
C38_RollbackAllOrNothing ==
    [][(last'.op = "rollbackTransaction" /\ last'.err # "") =>
          /\ _data' = _data
          /\ heap' = heap
          /\ _transactions' = _transactions]_vars

\* C39: a call of the function transaction(cb) returns ends at the
\* transaction depth it began at; it throws exactly the error its callback,
\* or the commit, threw, and none if they threw none; and when it throws,
\* every mutation the callback made is undone: the same records are stored
\* with the same values of their columns, and every bucket of every index
\* has the members it had.
C39_TransactionCallback ==
    [][last'.op = "transaction" =>
          /\ Len(_transactions') = Len(_transactions)
          /\ last'.err = last'.key
          /\ last'.err # "" =>
                /\ _data'.records = _data.records
                /\ \A o \in StoredObjs(State) : \A col \in Cols :
                      Read(State', <<o, 0>>, col) = Read(State, <<o, 0>>, col)
                /\ \A col \in Indexed : \A k \in Keys :
                      ObjsOf(_data'.indices[col][k]) = InBucket(col, k)]_vars

\* isInTransaction
IsInTransaction(s) == Len(s.tx) > 0

IsPrefix(a, b) == Len(a) <= Len(b) /\ SubSeq(b, 1, Len(a)) = a
Depth == Len(_transactions)
\* the calls that report a change event when they succeed
Reporting == {"addRecord", "setRecord", "removeRecord", "set", "delete"}

\* what one call may do to the stack of frames
StackStep ==
    /\ last'.op = "beginTransaction" =>
          _transactions' = Append(_transactions, <<>>)
    /\ (last'.op = "commitTransaction" /\ last'.err = "") =>
          /\ _transactions' = SubSeq(_transactions, 1, Depth - 1)
          /\ Depth >= 1
          /\ heap' = heap /\ _data' = _data
    /\ (last'.op = "rollbackTransaction" /\ last'.err = "") =>
          /\ Len(_transactions') = Depth - 1
          /\ Depth >= 1
          /\ \A i \in 1..(Depth - 2) : _transactions'[i] = _transactions[i]
          /\ Depth >= 2 => IsPrefix(_transactions[Depth - 1], _transactions'[Depth - 1])
    /\ last'.op \notin {"beginTransaction", "commitTransaction", "rollbackTransaction"} =>
          /\ Len(_transactions') = Depth
          /\ \A i \in 1..(Depth - 1) : _transactions'[i] = _transactions[i]
          /\ Depth >= 1 => IsPrefix(_transactions[Depth], _transactions'[Depth])
          /\ (Depth >= 1 /\ last'.op \in Reporting /\ last'.err = "") =>
                Len(_transactions'[Depth]) > Len(_transactions[Depth])
    /\ IsInTransaction(State)' <=> Len(snaps') > 0

\* C9: the transaction log is a stack: beginTransaction adds one frame,
\* commitTransaction and rollbackTransaction remove exactly the innermost one,
\* isInTransaction holds exactly while more frames were begun than ended,
\* every change event reported while a frame is open is appended to the
\* innermost frame and no other frame changes, and commitTransaction leaves
\* records and indices as they were.
C9_LogIsAStack == [][StackStep]_vars

\* an inner commit with events left in the outer frame
C9_Witness ==
    /\ last.op = "commitTransaction" /\ last.err = ""
    /\ Depth = 1
    /\ Len(_transactions[1]) > 0

\* C10: commitTransaction and rollbackTransaction called with no frame open
\* throw NoActiveTransaction and leave tables, records, indices, counters and
\* the empty frame stack unchanged.
C10_NoFrameThrows ==
    [][(last'.op \in {"commitTransaction", "rollbackTransaction"} /\ Depth = 0) =>
          /\ last'.err = "NoActiveTransaction"
          /\ UNCHANGED <<heap, _wrapped, _data, nested, _transactions>>
          /\ hook' = <<>>]_vars

\* a rollback with nothing open, on a table that holds a record
C10_Witness ==
    /\ last.op = "rollbackTransaction" /\ last.err = "NoActiveTransaction"
    /\ Depth = 0
    /\ _data.exists /\ DOMAIN _data.records # {}

-----------------------------------------------------------------------------
(* Identifiers *)

\* the identifiers under which the table stores records
UIDs == DOMAIN _data.records

\* C11: within the lifetime of a table addRecord assigns lastUID + 1, 1 for
\* the first record, setRecord advances the counter only when the identifier
\* it is given exceeds it, the counter never goes back, no stored identifier
\* exceeds it, and every identifier that comes into use other than by
\* setRecord, after removeRecord and by a rollback too, is greater than the
\* counter was, so greater than every identifier used before.
C11_FreshIdentifiers ==
    [][(_data.exists /\ _data'.exists) =>
          /\ _data'.lastUID >= _data.lastUID
          /\ \A id \in UIDs' : id <= _data'.lastUID
          /\ (last'.op = "addRecord" /\ last'.err = "") =>
                /\ _data'.lastUID = _data.lastUID + 1
                /\ heap'[last'.h[1]][UniqueID] = _data.lastUID + 1
                /\ UIDs' = UIDs \cup {_data.lastUID + 1}
          /\ (last'.op = "setRecord" /\ last'.err = "") =>
                _data'.lastUID = Max(_data.lastUID, heap'[last'.h[1]][UniqueID])
          /\ last'.op # "setRecord" => \A id \in UIDs' \ UIDs : id > _data.lastUID]_vars

\* addRecord after the only record was removed: identifier 1 stays retired
C11_Witness ==
    /\ last.op = "addRecord" /\ last.err = ""
    /\ UIDs = {2}
    /\ _data.lastUID = 2

\* C36: in every reachable state each entry of the records map is stored
\* under the identifier its identifier field holds, and no object is stored
\* under two identifiers, also after one object was given to addRecord or
\* setRecord more than once.
C36_EntriesUnderTheirIdentifier ==
    /\ \A id \in UIDs : Read(State, _data.records[id], UniqueID) = id
    /\ \A id, other \in UIDs :
          _data.records[id][1] = _data.records[other][1] => id = other

-----------------------------------------------------------------------------
(* Handles *)

\* the handles the lookups return now for object o
Returned(o) ==
    {h \in UNION ({GetRecord(State, id) : id \in 1..MaxUID}
                    \cup {GetRecordsByColumn(State, col, k) : col \in Cols, k \in Keys}) :
        h[1] = o}

\* C12: every handle the store returns for a stored record is the same
\* handle: what getRecord returns, every element getRecordsByColumn returns
\* for it, through an index or through a scan, and the record of every change
\* event about it are the handle addRecord returned for the plain object,
\* its one proxy.
C12_OneHandlePerRecord ==
    /\ \A o \in StoredObjs(State) : Returned(o) \subseteq {WrapRecord(<<o, 0>>)}
    /\ \A i \in 1..Len(hook) :
          hook[i].event.record = WrapRecord(<<hook[i].event.record[1], 0>>)

\* C37: in every reachable state getRecordsByColumn returns a stored record
\* at most once: no two handles it returns for a column and a value denote
\* the same object.
C37_LookupReturnsEachRecordOnce ==
    \A col \in Cols : \A k \in Keys :
        \A h, other \in GetRecordsByColumn(State, col, k) :
            h[1] = other[1] => h = other

-----------------------------------------------------------------------------
(* Change events *)

\* C13: every change event produced by changing a value reached through
\* record R, at any depth and by any path (object field, list element,
\* Map.get, iteration of a Map), carries R's handle as its record and the
\* name of the top-level field of R through which the value was reached as
\* its colName.  (The model has one table, so tableName is not modelled.)
C13_EventsNameRecordAndColumn ==
    \A i \in 1..Len(hook) :
        hook[i].event.type \in Mutations =>
            /\ hook[i].event.record = last.h
            /\ hook[i].event.colName = last.key

\* C14: one assignment or deletion of a field through a handle invokes the
\* change hook exactly once, with an event whose type, key and prior value
\* describe the operation, and, when a frame is open, appends exactly one
\* event to the innermost frame, whichever store call (addRecord,
\* getRecordsByColumn) produced the handle.
C14_OneEventPerMutation ==
    [][(last'.op \in {"set", "delete"} /\ last'.err = "") =>
          /\ Len(hook') = 1
          /\ hook'[1].event.type = last'.op
          /\ hook'[1].event.key = last'.key
          /\ hook'[1].event.oldValue = last'.old
          /\ Depth >= 1 =>
                /\ Len(_transactions') = Depth
                /\ Len(_transactions'[Depth]) = Len(_transactions[Depth]) + 1]_vars

\* the operations that change a value through a handle
ThroughHandle ==
    {"set", "delete", "push", "unshift", "pop", "shift", "splice",
     "Map.set", "Map.delete", "Map.clear", "Set.add", "Set.delete", "Set.clear"}

\* C15: for every mutating operation through a handle the mutation has been
\* applied when the change event is appended to the frame and dispatched to
\* the hook (what the hook sees of the record and its containers is what the
\* operation leaves), Map set/delete/clear and Set add/delete/clear included,
\* and the prior value of a field write is the value stored before it.
C15_MutationBeforeEvent ==
    last.op \in ThroughHandle =>
        \A i \in 1..Len(hook) :
            /\ hook[i].heap = heap
            /\ hook[i].nested = nested
            /\ last.op \in {"set", "delete"} => hook[i].event.oldValue = last.old

-----------------------------------------------------------------------------
(* Indices and tables *)

\* C16: after delete record.field through a handle of a stored record, where
\* field is indexed and held a defined value, the record is no longer a
\* member of the bucket of the old value and is a member of the bucket keyed
\* by undefined.  Membership is taken up to wrapping.
C16_DeleteMovesToUndefinedBucket ==
    (/\ last.op = "delete"
     /\ last.key \in Indexed
     /\ last.old # UNDEF) =>
        LET o == last.h[1]
        IN  /\ o \notin InBucket(last.key, last.old)
            /\ o \in InBucket(last.key, UNDEF)

\* the stored entries whose value at col is v
WithValue(col, v) == {r \in Range(_data.records) : Read(State, r, col) = v}

\* C17: createTable(name, cols) on an existing table keeps every record, the
\* last-assigned counter and every existing index, contents included,
\* unchanged, adds an index for each listed column that had none, built from
\* the stored records, and a second call with the same columns changes
\* nothing more.
C17_CreateTableIdempotent ==
    _data.exists =>
        \A indexKeys \in SUBSET Cols :
            LET s == CreateTable(State, indexKeys)
            IN  /\ s.thrown = ""
                /\ s.heap = heap /\ s.nested = nested /\ s.tx = _transactions
                /\ s.data.exists
                /\ s.data.records = _data.records
                /\ s.data.lastUID = _data.lastUID
                /\ DOMAIN s.data.indices = Indexed \cup indexKeys
                /\ \A col \in Indexed : s.data.indices[col] = _data.indices[col]
                /\ \A col \in indexKeys \ Indexed : \A v \in Keys :
                      s.data.indices[col][v] = IF v = UNDEF THEN {} ELSE WithValue(col, v)
                /\ CreateTable(s, indexKeys) = s

\* createTable was called on a table that stored a record with a value at an
\* unindexed column, and the index it added holds that record
C17_Witness ==
    /\ last.op = "createTable"
    /\ _data.exists /\ _data.lastUID >= 1
    /\ "c" \in Indexed
    /\ \E v \in Values : WithValue("c", v) # {} /\ _data.indices["c"][v] = WithValue("c", v)

\* C18: after a successful addIndex(T, C) indexExists(T, C) is true and, for
\* every value v, the bucket of C keyed by v holds exactly the records stored
\* in T whose value at C is v, records with an undefined C being in no bucket;
\* addIndex on an indexed column leaves the index unchanged; after
\* removeIndex(T, C) indexExists(T, C) is false.
C18_AddAndRemoveIndex ==
    /\ last.op = "addIndex" =>
          /\ IndexExists(State, last.key)
          /\ \A v \in Keys :
                _data.indices[last.key][v] = IF v = UNDEF THEN {} ELSE WithValue(last.key, v)
    /\ last.op = "removeIndex" => ~IndexExists(State, last.key)
    /\ \A col \in Cols :
          /\ IndexExists(State, col) => AddIndex(State, col) = State
          /\ _data.exists => IndexExists(AddIndex(State, col), col)
          /\ ~IndexExists(RemoveIndex(State, col), col)

\* addIndex has built the index of a column at which a stored record has a
\* value
C18_Witness ==
    /\ last.op = "addIndex"
    /\ \E v \in Values : _data.indices[last.key][v] # {}

\* C19: misses are non-fatal no-ops.  With no table, getRecord,
\* getAllRecords, getRecordsByColumn, removeRecord, removeRecordsByColumn,
\* deleteTable, addIndex and removeIndex return without an error and leave
\* the store unchanged; so do removeRecord of a record whose identifier the
\* table does not hold and removeIndex of a column that has no index.
C19_MissesAreNoOps ==
    /\ last.op = "getAllRecords" => last.err = ""
    /\ ~_data.exists =>
          /\ \A id \in 1..MaxUID : GetRecord(State, id) = {}
          /\ \A col \in Cols, v \in Keys :
                /\ GetRecordsByColumn(State, col, v) = {}
                /\ RemoveRecordsByColumn(State, col, v) = State
          /\ \A h \in Held : RemoveRecord(State, h) = State
          /\ DeleteTable(State) = State
          /\ \A col \in Cols : AddIndex(State, col) = State /\ RemoveIndex(State, col) = State
    /\ _data.exists =>
          /\ \A h \in Held : Read(State, h, UniqueID) \notin UIDs => RemoveRecord(State, h) = State
          /\ \A col \in Cols \ Indexed : RemoveIndex(State, col) = State

\* what addRecord and setRecord leave when they fail for want of the table
TableNotFound == [State EXCEPT !.thrown = "TableNotFound"]

\* C20: addRecord and setRecord on a table that does not exist fail with
\* TableNotFound and change nothing: no table is created, no identifier is
\* reserved, no index is touched, no event is appended to an open frame and
\* the change hook is not invoked; and they fail for no other reason.
C20_NoTableNoChange ==
    [][/\ ~_data.exists =>
             \A o \in Objs, wrapped \in BOOLEAN :
                 /\ AddRecord(State, <<o, 0>>, wrapped) = TableNotFound
                 /\ \A uid \in 1..MaxUID :
                       SetRecord(State, <<o, 0>>, uid, wrapped) = TableNotFound
       /\ (last'.op \in {"addRecord", "setRecord"} /\ ~_data.exists) =>
             /\ last'.err = "TableNotFound"
             /\ UNCHANGED <<heap, _wrapped, _data, nested, _transactions>>
             /\ hook' = <<>>
       /\ (last'.op \in {"addRecord", "setRecord"} /\ _data.exists) =>
             last'.err = ""]_vars

\* addRecord failed for want of the table while a frame was open
C20_Witness ==
    /\ last.op = "addRecord" /\ last.err = "TableNotFound"
    /\ Depth >= 1

\* what a setRecord on an identifier in use must leave: the identifier
\* yields the record given, and the record stored under it before is
\* returned by no lookup and filed in no bucket
Overwrites(id) ==
    LET previous == _data.records[id][1]
        after    == State'
    IN  /\ GetRecord(after, id) = {WrapRecord(last'.h)}
        /\ previous \notin ObjsOf(GetAllRecords(after))
        /\ \A col \in Cols : \A k \in Keys :
              previous \notin ObjsOf(GetRecordsByColumn(after, col, k))
        /\ \A col \in DOMAIN after.data.indices : \A k \in Keys :
              previous \notin ObjsOf(after.data.indices[col][k])

\* C34: setRecord(T, v, id) on an identifier under which another record is
\* stored, and stored under no other identifier, overwrites: afterwards getRecord(T, id) is v, and the record
\* stored before is returned neither by getAllRecords nor by
\* getRecordsByColumn, for an indexed or any other column, and is a member
\* of no index bucket.
C34_SetRecordOverwrites ==
    [][\A id \in UIDs :
          (/\ last'.op = "setRecord" /\ last'.err = ""
           /\ heap'[last'.h[1]][UniqueID] = id
           /\ _data.records[id][1] # last'.h[1]
           /\ \A other \in UIDs \ {id} : _data.records[other][1] # _data.records[id][1])
              => Overwrites(id)]_vars

\* C35: in every reachable state, whatever an index bucket holds is the
\* very object, the same reference, that the records map holds under that
\* record's identifier.
C35_BucketsHoldTheEntries ==
    \A col \in Indexed : \A k \in Keys : \A h \in _data.indices[col][k] :
        /\ Read(State, h, UniqueID) \in UIDs
        /\ _data.records[Read(State, h, UniqueID)] = h

-----------------------------------------------------------------------------
(* Rolling back changes to containers *)

\* the last call rolled back a frame in which no transaction was begun and
\* whose only change has one of the given types
OnlyChange(types) ==
    /\ RolledBack
    /\ ~Undone.innerBegin
    /\ Len(Undone.changes) = 1
    /\ Undone.changes[1].type \in types

\* C28: after the rollback of a frame whose only change is map.set(k, v),
\* map.delete(k), set.add(e) or set.delete(e), the Map and the Set of every
\* record are what they were before the call: a key maps to its prior value
\* or is absent as before, an element is present only if it was present.
C28_RollbackOfInsertAndRemove ==
    OnlyChange({"method.set", "method.delete", "method.add"}) =>
        \A o \in Objs :
            /\ nested[o].contactDetails = Undone.snap.nested[o].contactDetails
            /\ nested[o].previousAddresses = Undone.snap.nested[o].previousAddresses

\* C29: after the rollback of a frame whose only change is a clear() of a Map
\* or Set, the container holds every entry it held before the clear.
C29_RollbackOfClear ==
    OnlyChange({"method.clear"}) =>
        \A o \in Objs :
            /\ nested[o].contactDetails = Undone.snap.nested[o].contactDetails
            /\ nested[o].previousAddresses = Undone.snap.nested[o].previousAddresses

\* C30: after the rollback of a frame whose only change is push(x1..xk),
\* unshift(x1..xk), pop() or shift(), the list equals its contents before
\* the call: all k added elements are gone, a removed element is back at its
\* end, and a list that was empty for the pop() or shift() is empty again.
C30_RollbackOfListEnds ==
    OnlyChange({"method.push", "method.unshift", "method.pop", "method.shift"}) =>
        \A o \in Objs : nested[o].hobbies = Undone.snap.nested[o].hobbies

\* C31: after the rollback of a frame whose only change is
\* splice(start, deleteCount, ...items), the list equals its contents before
\* the splice, for every start, a start beyond the end of the list included,
\* every deleteCount and every number of inserted items.
C31_RollbackOfSplice ==
    OnlyChange({"method.splice"}) =>
        \A o \in Objs : nested[o].hobbies = Undone.snap.nested[o].hobbies

\* C32: after the rollback of a frame whose only change is a field
\* assignment or a field deletion, the field is what it was before
\* beginTransaction, not there if it was not there (and not there holding
\* undefined), and every index bucket has the members it had before
\* beginTransaction, the bucket keyed by undefined included.
C32_RollbackOfFieldChange ==
    (OnlyChange({"set", "delete"}) /\ SameSchema(Undone.snap)) =>
        LET change == Undone.changes[1]
        IN  /\ heap[change.record[1]][change.key]
                  = Undone.snap.heap[change.record[1]][change.key]
            /\ \A col \in Indexed : \A k \in Keys :
                  InBucket(col, k) = ObjsOf(Undone.snap.data.indices[col][k])

-----------------------------------------------------------------------------
(* The codec *)

\* Decode has decoded what Encode made of a value graph
RoundTrip == codec.phase = "decoded"
\* the composites Encode visited
Visited == {n \in DOMAIN codec.graph : codec.e.refs[n] # -1}
\* the decoded nodes registered under the reference id of composite n
Images(n) == {p[2] : p \in {q \in codec.d.refs : q[1] = codec.e.refs[n]}}
\* value b of the decoded graph stands where value a stood: the same scalar,
\* or the decoded node of the same composite
Corresponds(a, b) ==
    IF a.t = "node" THEN b.t = "node" /\ a.v \in Visited /\ Images(a.v) = {b.v}
    ELSE a = b
\* decoded node m is composite n again: kind, time, and member by member
SameNode(n, m) ==
    LET old == codec.graph[n]
        new == codec.d.graph[m]
    IN  /\ new.kind = old.kind
        /\ new.time = old.time
        /\ Len(new.items) = Len(old.items)
        /\ \A i \in 1..Len(old.items) :
              /\ Corresponds(old.items[i].key, new.items[i].key)
              /\ Corresponds(old.items[i].val, new.items[i].val)
\* the values without tokens, encoded with no blocklist
Plain ==
    /\ codec.blocklist = {}
    /\ codec.root.t # "symbol"
    /\ \A n \in DOMAIN codec.graph : \A i \in 1..Len(codec.graph[n].items) :
          codec.graph[n].items[i].key.t # "symbol" /\ codec.graph[n].items[i].val.t # "symbol"

\* C21: for every value graph of scalars, big integers, dates, lists, Maps,
\* Sets and objects, shared members and cycles included, Encode and Decode
\* end without an error and the decoded graph is the graph again: the
\* decoded value stands for the value encoded, every composite reached has
\* exactly one decoded node, of its kind and with its members in their
\* places, two places hold the same composite exactly when they hold the
\* same decoded node, and no other node is made.
C21_RoundTrip ==
    (RoundTrip /\ Plain) =>
        /\ codec.d.thrown = ""
        /\ Corresponds(codec.root, codec.value)
        /\ \A n \in Visited :
              /\ \E m \in 1..Len(codec.d.graph) : Images(n) = {m} /\ SameNode(n, m)
              /\ \A i \in 1..Len(codec.graph[n].items) :
                    /\ codec.graph[n].items[i].key.t = "node" =>
                          codec.graph[n].items[i].key.v \in Visited
                    /\ codec.graph[n].items[i].val.t = "node" =>
                          codec.graph[n].items[i].val.v \in Visited
        /\ \A n1, n2 \in Visited : n1 # n2 => Images(n1) # Images(n2)
        /\ Len(codec.d.graph) = Cardinality(Visited)

\* a Map that holds itself and, twice, an object that holds the Map has
\* been encoded and decoded
C21_Witness ==
    /\ RoundTrip /\ Plain
    /\ codec.graph[1].kind = "map"
    /\ codec.graph[1].items = <<Entry(Num(1), Node(1)), Entry(Node(2), Node(2))>>
    /\ codec.graph[2] = Composite("object", <<Entry(Str(1), Node(1))>>)
    /\ codec.value = Node(1)
    /\ codec.d.graph[1].items = <<Entry(Num(1), Node(1)), Entry(Node(2), Node(2))>>

\* the wire nodes of an encoding in the order Decode meets them: a node, then
\* its children, key before val
RECURSIVE Flatten(_)
RECURSIVE FlattenItems(_, _)
Flatten(wire) == <<wire>> \o FlattenItems(wire.items, 1)
FlattenItems(items, i) ==
    IF i > Len(items) THEN <<>>
    ELSE (IF items[i].key.type = "none" THEN <<>> ELSE Flatten(items[i].key))
            \o Flatten(items[i].val) \o FlattenItems(items, i + 1)

\* the kinds of wire node that carry a composite in full
FullKinds == {"array", "map", "set", "object", "date"}
\* the places of value graph and root that hold composite n
Occurrences(n) ==
    {<<m, i, part>> \in Visited \X (1..MaxItems) \X {"key", "val"} :
        /\ i <= Len(codec.graph[m].items)
        /\ codec.graph[m].items[i][part] = Node(n)}
        \cup (IF codec.root = Node(n) THEN {<<0, 0, "root">>} ELSE {})

\* C22: in the output of one Encode call every composite reached is encoded
\* in full exactly once, with a reference id equal to the number of
\* composites whose encoding began before it; every other place that holds
\* the composite is a reference node with that id; and every reference node
\* carries the id of a composite whose full encoding comes earlier in the
\* order Decode follows.
C22_ReferenceIds ==
    (codec.phase \in {"encoded", "decoded"} /\ codec.blocklist = {}) =>
        LET F    == Flatten(codec.wire)
            Full == {p \in 1..Len(F) : F[p].type \in FullKinds}
            Refs == {p \in 1..Len(F) : F[p].type = "ref"}
        IN  /\ \A p \in Full : F[p].ref = Cardinality({q \in Full : q < p})
            /\ \A p \in Refs : \E q \in Full : q < p /\ F[q].ref = F[p].val
            /\ Cardinality(Full) = Cardinality(Visited)
            /\ \A n \in Visited :
                  /\ \E p \in Full :
                        F[p].ref = codec.e.refs[n] /\ F[p].type = codec.graph[n].kind
                  /\ Cardinality({p \in Refs : F[p].val = codec.e.refs[n]}) + 1
                        = Cardinality(Occurrences(n))

\* an encoding with two composites in full, the second after a reference to
\* the first and before a reference to itself
C22_Witness ==
    /\ codec.phase = "encoded"
    /\ codec.wire.type = "array" /\ codec.wire.ref = 0
    /\ Len(codec.wire.items) = 2
    /\ codec.wire.items[1].val.type = "ref"
    /\ codec.wire.items[2].val.type = "set" /\ codec.wire.items[2].val.ref = 1
    /\ Len(codec.wire.items[2].val.items) = 1
    /\ codec.wire.items[2].val.items[1].val.type = "ref"
    /\ codec.wire.items[2].val.items[1].val.val = 1

\* the kinds of wire node Decode knows
WireKinds ==
    FullKinds \cup {"ref", "symbol", "bigint", "null", "string", "number", "boolean", "undefined"}
\* a reference node of the wire whose id no node before it registers
Unresolved(wire) ==
    LET F == Flatten(wire)
    IN  \E p \in 1..Len(F) :
            /\ F[p].type = "ref"
            /\ ~\E q \in 1..(p - 1) : F[q].type \in FullKinds /\ F[q].ref = F[p].val
\* a node of the wire of no known kind
UnknownKind(wire) ==
    LET F == Flatten(wire) IN \E p \in 1..Len(F) : F[p].type \notin WireKinds

\* C23: Decode of a wire node that holds a reference to an id not registered,
\* or a node of an unknown kind, fails with an error and returns no value.
C23_DecodeRejects ==
    (/\ codec.phase = "decoded wire"
     /\ Unresolved(codec.wire) \/ UnknownKind(codec.wire)) =>
        codec.d.thrown # ""

\* a list of tokens has been encoded
TokensEncoded ==
    /\ codec.phase \in {"encoded", "decoded"}
    /\ Len(codec.graph) = 1
    /\ codec.root = Node(1)
    /\ codec.graph[1].kind = "array"
    /\ \A i \in 1..Len(codec.graph[1].items) : codec.graph[1].items[i].val.t = "symbol"
\* the i-th token of the list, the name it was encoded to, and the token
\* that name was decoded to
TokenAt(i) == codec.graph[1].items[i].val.v
NameAt(i) == codec.wire.items[i].val.name
DecodedAt(i) == codec.d.graph[1].items[i].val.v
\* the tokens the caller's table holds
InTable(token) == \E i \in 1..Len(codec.symbols) : codec.symbols[i].token = token

\* C24: within one Encode call a token that the symbol table holds encodes
\* to a name the table gives it, a token the table does not hold encodes to
\* a name that is none of the table's, and two tokens encode to the same
\* name exactly when they are the same token; Decode maps every name to the
\* token its table holds for it, equal names to one token.
C24_TokensKeepIdentity ==
    TokensEncoded =>
        LET places == 1..Len(codec.graph[1].items)
        IN  /\ \A i \in places :
                  IF InTable(TokenAt(i))
                  THEN Lookup(codec.symbols, NameAt(i)) = TokenAt(i)
                  ELSE Lookup(codec.symbols, NameAt(i)) = 0
            /\ \A i, j \in places : (TokenAt(i) = TokenAt(j)) <=> (NameAt(i) = NameAt(j))
            /\ codec.phase = "decoded" =>
                  /\ \A i \in places : DecodedAt(i) = Lookup(codec.d.symbols, NameAt(i))
                  /\ \A i, j \in places : NameAt(i) = NameAt(j) => DecodedAt(i) = DecodedAt(j)

\* a value has been encoded with a blocklist
BlocklistUsed == codec.phase \in {"encoded", "decoded"} /\ codec.blocklist # {}
\* the wire node that stands for an absent value
IsAbsent(wire) == wire.type = "undefined" /\ Len(wire.items) = 0 /\ wire.ref = -1

\* C25: a value of the blocklist passed to Encode, of any kind, composite,
\* scalar or token, at the root or as a member, is encoded as absent, its
\* members are not visited and it takes no reference id.
C25_BlocklistSkips ==
    BlocklistUsed =>
        /\ codec.root \in codec.blocklist => IsAbsent(codec.wire)
        /\ \A n \in DOMAIN codec.graph : Node(n) \in codec.blocklist => n \notin Visited
        /\ (codec.root = Node(1) /\ Node(1) \notin codec.blocklist) =>
              \A i \in 1..Len(codec.graph[1].items) :
                  codec.graph[1].items[i].val \in codec.blocklist =>
                      IsAbsent(codec.wire.items[i].val)
        /\ (Node(2) \in codec.blocklist \/ codec.root \in codec.blocklist) => 3 \notin Visited

-----------------------------------------------------------------------------
(* Snapshots *)

\* C26: after load(serialize()) the table has the same record identifiers
\* with equal record values, the same last-assigned counter and the same
\* indexed columns, and every record that was a member of the bucket of its
\* value at an indexed column is itself, the very object the table stores,
\* a member of that bucket of the loaded store.
C26_SnapshotRoundTrip ==
    _data.exists =>
        LET loaded  == Load(State)
            graph   == loaded.d.graph
            table   == Member(graph, loaded.value.v, StrOf("t")).v
            records == Member(graph, table, StrOf("records")).v
            indices == Member(graph, table, StrOf("indices")).v
        IN  /\ loaded.d.thrown = ""
            /\ {graph[records].items[i].key : i \in 1..Len(graph[records].items)}
                  = {Big(id) : id \in UIDs}
            /\ \A id \in UIDs :
                  LET record == Member(graph, records, Big(id))
                  IN  /\ record.t = "node"
                      /\ graph[record.v].items = RecordItems(State, _data.records[id])
            /\ Member(graph, table, StrOf("lastUID"))
                  = (IF _data.lastUID = 0 THEN Undefined ELSE Big(_data.lastUID))
            /\ {graph[indices].items[i].key : i \in 1..Len(graph[indices].items)}
                  = {StrOf(col) : col \in Indexed}
            /\ \A col \in Indexed : \A id \in UIDs :
                  LET value == Read(State, _data.records[id], col)
                  IN  (value # UNDEF /\ _data.records[id][1] \in InBucket(col, value)) =>
                          LET bucket == Member(graph, Member(graph, indices, StrOf(col)).v,
                                               ValueOf(value))
                          IN  /\ bucket.t = "node"
                              /\ \E i \in 1..Len(graph[bucket.v].items) :
                                    graph[bucket.v].items[i].val = Member(graph, records, Big(id))

-----------------------------------------------------------------------------
(* Iteration of wrapped Maps and Sets *)

\* the one event of the last call
TheEvent(s) == s.hook[1].event

\* C27: every form of iterating a wrapped Map or Set yields wrapped
\* elements.  Adding to the Set that an iteration of a Map yields produces
\* the change event, and leaves the state, that the same add produces on the
\* Set reached by get(key); assigning a property of the object that an
\* iteration of a Set yields produces one "set" event on that object,
\* attributed to the Set's column, the same in every form.
C27_IterationYieldsWrapped ==
    \A o \in Reached, v \in Values :
        /\ \A how \in MapForms :
              /\ AddAddress(State, o, how, v) = AddAddress(State, o, "get", v)
              /\ Len(AddAddress(State, o, how, v).hook) = 1
              /\ TheEvent(AddAddress(State, o, how, v)).type = "method.add"
              /\ TheEvent(AddAddress(State, o, how, v)).object = <<"addresses", 1>>
        /\ \A how \in SetForms :
              /\ SetMember(State, o, how, v) = SetMember(State, o, "iterator", v)
              /\ Len(SetMember(State, o, how, v).hook) = 1
              /\ TheEvent(SetMember(State, o, how, v)).type = "set"
              /\ TheEvent(SetMember(State, o, how, v)).object = <<"member", 1>>
              /\ TheEvent(SetMember(State, o, how, v)).colName = "group"

\* an iteration of the Map directory has yielded the Set addresses, an add on
\* it has sent one event, and the Set holds what was added
C27_Witness ==
    /\ last.op \in {"directory.entries", "directory.iterator", "directory.forEach"}
    /\ Len(hook) = 1
    /\ hook[1].event.type = "method.add"
    /\ hook[1].event.object = <<"addresses", 1>>
    /\ \E v \in Values : hook[1].event.args = <<v>> /\ v \in nested[last.h[1]].addresses

-----------------------------------------------------------------------------
(* Saving on a timer *)

\* C40: with the periodic save timer running, the dirty marker is cleared
\* only when the snapshot has been written: in every reachable state a store
\* that was changed since it was last written to the file is marked dirty,
\* so that a later tick of the timer saves it, also after a save that failed.
C40_DirtyUntilSaved == fs.unsaved => fs._hasUpdates # 0

====
